---- MODULE Spec2Model ----
(***************************************************************************)
(* Model of DatamartSearchResult.augment / _augment / download             *)
(* (src/datamart_isi/entries.py).                                          *)
(*                                                                         *)
(* Tables are modelled structurally: a table is a sequence of column names *)
(* and a number of rows; the cell of row r and column c of the supplied    *)
(* (left) table is the symbolic value <<"L", r, c>>, the cell of the       *)
(* companion (right) table is <<"R", r, c>>, so that every cell of an      *)
(* output table tells where it came from.                                  *)
(***************************************************************************)
EXTENDS Integers, Sequences, FiniteSets, TLC

\* ---------------------------------------------------------------- bounds
MaxSmallRows == 2       \* small supplied tables have 1..MaxSmallRows rows
MaxPairedLeft == 2      \* only the first MaxPairedLeft left rows occur in row pairs
RightRows == 2          \* number of rows of the companion table

\* maximum_accept_duplicate_amount = shape[0] / 20
DuplicateRatio == 20

\* ------------------------------------------------------- generic helpers
Range(s) == {s[i] : i \in DOMAIN s}

\* list.index(x): first position of x (1-based here), x must be present
IndexOf(s, x) == CHOOSE i \in DOMAIN s : s[i] = x /\ \A j \in 1..(i - 1) : s[j] # x

\* keep the elements of s that are in set S, in the order of s
Restrict(s, S) == SelectSeq(s, LAMBDA x : x \in S)

\* ------------------------------------------------ names used in the model
OI == "**original_index**"
VariableName == "k"          \* search_result['variableName']['value']
TargetQNodeColumn == "a"     \* search_result['target_q_node_column_name']
QueryVariables == <<"a">>    \* query_json['variables'].keys()

\* every column name of the model in Python's (code point) sort order
SortedNames == <<"a", "b", "c", "id", "k", "q_node", "t">>

LeftColumnChoices ==
    { <<"a", "b">>, <<"b", "a">>, <<"id", "a">>, <<"b", "a", "q_node">>, <<"b">> }

RightColumnChoices(search_type) ==
    IF search_type = "general"
    THEN { <<"k", "c">>, <<"k", "b", "c">>, <<"t", "k", "c">>, <<"k", "id", "c">>,
           <<"c">>, <<"k">> }
    ELSE { <<"c", "q_node">>, <<"b", "c", "q_node">>, <<"id", "q_node">>, <<"q_node">> }

LeftRowCounts == (1..MaxSmallRows) \cup {DuplicateRatio, DuplicateRatio + 1}

SearchTypes == {"general", "wikidata", "vector"}

\* ------------------------------------------------------------ cell values
LeftCell(r, c) == <<"L", r, c>>
RightCell(r, c) == <<"R", r, c>>
IndexCell(r) == <<"OI", r, "">>
NaN == <<"NaN", 0, "">>

\* ------------------------------------------------- row pairs (RowPairSet)
PairLess(p, q) == p[1] < q[1] \/ (p[1] = q[1] /\ p[2] < q[2])

RECURSIVE AscendingPairs(_)
AscendingPairs(P) ==
    IF P = {} THEN <<>>
    ELSE LET m == CHOOSE p \in P : \A q \in P \ {p} : PairLess(p, q)
         IN  <<m>> \o AscendingPairs(P \ {m})

\* The joiner (RLTKJoinerGeneral / RLTKJoinerWikidata .find_pair) returns the
\* companion table with one more column, 'joining_pairs', holding for every
\* right row the left rows paired with it, and the list of row pairs in
\* ascending (left, right) order.
find_pair(P) ==
    [ pairs |-> AscendingPairs(P),
      joining_pairs |-> [r2 \in 0..(RightRows - 1) |->
                            AscendingPairs({p \in P : p[2] = r2})] ]

PairSets(n) ==
    LET top == IF n < MaxPairedLeft THEN n ELSE MaxPairedLeft
    IN  SUBSET ((0..(top - 1)) \X (0..(RightRows - 1)))

\* ------------------------------------------------------- fan-out check
\* len(x) >= maximum_accept_duplicate_amount, with the amount n / 20
Oversize(len, n) == len * DuplicateRatio >= n

\* for each_row in join_pair_column: if len(each_row) >= maximum: raise
TooManyJoinColumns(joining_pairs, n) ==
    \E r2 \in DOMAIN joining_pairs : Oversize(Len(joining_pairs[r2]), n)

\* one iteration of "for r1, r2 in self.pairs"; st is the loop state
CountStep(st, r1, r2, n) ==
    IF st.left_pairs_oversize /\ st.right_pairs_oversize
    THEN [st EXCEPT !.raised = TRUE]
    ELSE LET st1 == IF Oversize(Len(st.left_pairs[r1]), n)
                    THEN [st EXCEPT !.left_pairs_oversize = TRUE,
                                    !.left_pairs[r1] = Append(@, r2)]
                    ELSE st
             st2 == IF Oversize(Len(st1.right_pairs[r2]), n)
                    THEN [st1 EXCEPT !.right_pairs_oversize = TRUE]
                    ELSE IF ~st1.right_pairs_oversize
                         THEN [st1 EXCEPT !.right_pairs[r2] = Append(@, r1)]
                         ELSE st1
         IN  st2

RECURSIVE CountPairs(_, _, _)
CountPairs(ps, st, n) ==
    IF ps = <<>> \/ st.raised THEN st
    ELSE CountPairs(Tail(ps), CountStep(st, Head(ps)[1], Head(ps)[2], n), n)

CountInit ==
    [ left_pairs_oversize |-> FALSE, right_pairs_oversize |-> FALSE,
      left_pairs |-> [r \in 0..(MaxPairedLeft + 1) |-> <<>>],
      right_pairs |-> [r \in 0..RightRows |-> <<>>],
      raised |-> FALSE ]

\* the n-m check: raised inside the loop or right after it
NToMRelationship(pairs, n) ==
    LET st == CountPairs(pairs, CountInit, n)
    IN  st.raised \/ (st.left_pairs_oversize /\ st.right_pairs_oversize)

\* ------------------------------------------------------------ the merge
\* augment_columns is [none |-> TRUE] for None, else [none |-> FALSE, cols |-> list
\* of column_index]
NoColumns == [none |-> TRUE, cols |-> <<>>]
Columns(s) == [none |-> FALSE, cols |-> s]

\* "self.special_requirement and ...get('display_columns') and len(augment_columns) == 0"
\* evaluates len(None) when display columns are given and augment_columns is None
SpecialRequirementFails(display_columns, ac) == display_columns # <<>> /\ ac.none

WithDisplayColumns(display_columns, ac) ==
    IF display_columns # <<>> /\ ~ac.none /\ Len(ac.cols) = 0
    THEN Columns(display_columns)
    ELSE ac

\* the search result's d3m_metadata names the columns download() produces
MetadataNames(right_cols) == right_cols

\* right_res.index.difference(left_res.index): sorted, without duplicates
IndexDifference(right_cols, left_index) ==
    Restrict(SortedNames, Range(right_cols) \ Range(left_index))

\* only for general search: drop search_result['variableName']['value']
DropJoinColumn(names, search_type) ==
    IF search_type = "general" THEN Restrict(names, Range(names) \ {VariableName})
    ELSE names

\* names of the augment_columns whose column_index < max_length
AugmentColumnNames(ac, meta) ==
    { meta[i + 1] : i \in { j \in Range(ac.cols) : j < Len(meta) } }

\* a variant that never applies the allow-list
FilterColumnsIgnored(names, ac, meta) == names

\* "if augment_columns:" is false for None and for the empty list
FilterColumns(names, ac, meta) ==
    IF ~ac.none /\ ac.cols # <<>>
    THEN Restrict(names, AugmentColumnNames(ac, meta))
    ELSE names

ColumnNamesToJoin(left_cols, right_cols, search_type, ac, meta) ==
    FilterColumns(
        DropJoinColumn(IndexDifference(right_cols, left_cols \o <<OI>>), search_type),
        ac, meta)

\* a variant in which a later pair of a left row replaces the earlier one
JoinLoopLast(ps, r1_paired, kept) ==
    SelectSeq(ps, LAMBDA p : \A i \in DOMAIN ps : ps[i][1] = p[1] => ps[i][2] <= p[2])

\* the pairs the loop does not skip: the first pair of every left row
RECURSIVE JoinLoop(_, _, _)
JoinLoop(ps, r1_paired, kept) ==
    IF ps = <<>> THEN kept
    ELSE IF Head(ps)[1] \in r1_paired
         THEN JoinLoop(Tail(ps), r1_paired, kept)
         ELSE JoinLoop(Tail(ps), r1_paired \cup {Head(ps)[1]}, Append(kept, Head(ps)))

\* left_res.to_dict() of row r (the frame carries the extra index column)
DictLeft(left_cols, r) ==
    [c \in Range(left_cols) \cup {OI} |->
        IF c = OI THEN IndexCell(r) ELSE LeftCell(r, c)]

\* a variant that updates the left row with the whole right row
JoinedRowRightWins(left_cols, rcols, names, p) ==
    LET dict_left == DictLeft(left_cols, p[1])
    IN  [c \in Range(rcols) \cup DOMAIN dict_left |->
            IF c \in Range(rcols) THEN RightCell(p[2], c) ELSE dict_left[c]]

\* right_res = download_result.loc[int(r2)];
\* dcit_right = right_res[column_names_to_join].to_dict(); dcit_right.update(dict_left)
JoinedRow(left_cols, rcols, names, p) ==
    LET dict_left == DictLeft(left_cols, p[1])
        right_res == [c \in Range(rcols) |-> RightCell(p[2], c)]
        dcit_right == [c \in Range(names) |-> right_res[c]]
    IN  [c \in DOMAIN dcit_right \cup DOMAIN dict_left |->
            IF c \in DOMAIN dict_left THEN dict_left[c] ELSE dcit_right[c]]

RECURSIVE AscendingList(_)
AscendingList(S) ==
    IF S = {} THEN <<>>
    ELSE LET m == CHOOSE x \in S : \A y \in S : x <= y
         IN  <<m>> \o AscendingList(S \ {m})

\* df_joined.append(rows, ignore_index=True): missing cells become NaN
FillRow(row, cols) == [c \in Range(cols) |-> IF c \in DOMAIN row THEN row[c] ELSE NaN]

\* a variant that leaves the rows in the order they were appended
SortValuesSkipped(rows) == rows

\* df_joined.sort_values(by='**original_index**')
SortValues(rows) == SortSeq(rows, LAMBDA x, y : x[OI][2] < y[OI][2])

\* df.drop(columns=[name]) when name is a column
DropColumn(table, name) ==
    IF name \in Range(table.cols)
    THEN [ cols |-> Restrict(table.cols, Range(table.cols) \ {name}),
           rows |-> [i \in DOMAIN table.rows |->
                        [c \in DOMAIN table.rows[i] \ {name} |-> table.rows[i][c]]] ]
    ELSE table

\* lines 1791-1795
DropQNodeAndId(table) == DropColumn(DropColumn(table, "q_node"), "id")

\* lines 1728-1795 : the table _augment builds from the pairs
MergeTables(left_cols, n, right_cols, pairs, search_type, ac, meta) ==
    LET kept == JoinLoop(pairs, {}, <<>>)
        names == ColumnNamesToJoin(left_cols, right_cols, search_type, ac, meta)
        \* columns_new stays None when the loop body never runs
        columns_new == IF kept = <<>> THEN left_cols \o <<OI>>
                       ELSE (left_cols \o <<OI>>) \o names
        joined == [i \in DOMAIN kept |-> JoinedRow(left_cols, right_cols, names, kept[i])]
        r1_paired == {kept[i][1] : i \in DOMAIN kept}
        unpaired_rows_list == AscendingList((0..(n - 1)) \ r1_paired)
        unpaired == [i \in DOMAIN unpaired_rows_list |->
                        DictLeft(left_cols, unpaired_rows_list[i])]
        appended == joined \o unpaired
        all_rows == [i \in DOMAIN appended |-> FillRow(appended[i], columns_new)]
        sorted == [cols |-> columns_new, rows |-> SortValues(all_rows)]
    IN  DropQNodeAndId(DropColumn(sorted, OI))

\* ------------------------------------------------------------- the state
VARIABLES
    supplied_cols,     \* column names of the supplied (left) dataframe
    supplied_n,        \* its number of rows
    search_type,       \* self.search_type
    right_cols,        \* column names of the companion table the result materializes
    join_pairs,        \* self.join_pairs
    display_columns,   \* self.special_requirement['display_columns'] (<<>>: none)
    cache,             \* entry of the general search cache under this call's key
    caller_columns,    \* the augment_columns argument as the caller passed it
    augment_columns,   \* the caller's augment_columns list, as it is now
    use_cache,         \* kwargs['use_cache']
    cache_key,         \* TRUE when augment() holds a cache key
    pairs,             \* self.pairs
    download_result,   \* what download() returned to _augment
    joined_on,         \* names of the right columns the row pairs were found on
    inner,             \* outcome of the call of _augment under timeout_call
    ret,               \* outcome of augment()
    pc                 \* position in augment()

vars == << supplied_cols, supplied_n, search_type, right_cols, join_pairs,
           display_columns, cache, caller_columns, augment_columns, use_cache, cache_key, pairs,
           download_result, joined_on, inner, ret, pc >>

search_result == << supplied_cols, supplied_n, search_type, right_cols, join_pairs,
                    display_columns >>

inputs == << search_result, caller_columns >>

\* the state of one call of DatamartQueryCursor._search_datamart
VARIABLES
    augment_with_time, \* self.augment_with_time
    tv,                \* the query's time range << start, end >>, as dates
    bindings,          \* what the triple store holds for the query's keywords
    query_results,     \* the list query_by_sparql returned, updated in place
    time_score,        \* the local variable time_score
    result_index,      \* number of query results the loop has handled
    ranked,            \* the list _search_datamart returns
    spc                \* position in _search_datamart

search_vars == << augment_with_time, tv, bindings, query_results, time_score,
                  result_index, ranked, spc >>

\* a DatamartSearchResult of a general search, and what serialize(),
\* deserialize() and get_join_hints() made of it
VARIABLES
    this_result,       \* the search result object
    given_columns,     \* the lists a TabularJoinSpec was last constructed from
    serialized,        \* the text serialize() returned, or one received
    restored,          \* what deserialize() returned
    hints,             \* what get_join_hints() returned, without and with tables
    jpc                \* which of these calls has been made

joinspec_vars == << this_result, given_columns, serialized, restored, hints, jpc >>

\* a DatamartQueryCursor and the calls of get_next_page made on it
VARIABLES
    search_query,      \* per query of self.search_query, the list its search finds
    current_searching_query_index,   \* self.current_searching_query_index
    remained_part,     \* self.remained_part
    limit,             \* the limit argument of the call under way or last made
    timeout,           \* the local variable timeout: the seconds left
    current_result,    \* the local list current_result
    shares_remained,   \* current_result is the list object self.remained_part holds
    search_res,        \* what the last timeout_call returned
    page,              \* outcome of the last call of get_next_page
    found_results,     \* the results the searches have returned so far
    returned,          \* the results in the pages of the calls before the last
    exhausted,         \* when the last call began, every query had been searched
                       \* and every result found had been returned in a page
    limits,            \* the limits the calls were made with
    calls,             \* number of calls made
    cpc                \* position in get_next_page

cursor_vars == << search_query, current_searching_query_index, remained_part, limit,
                  timeout, current_result, shares_remained, search_res, page,
                  found_results, returned, exhausted, limits, calls, cpc >>

\* one call of _download_general on a join spec of several column pairs
VARIABLES
    column_pairs,      \* the local list pairs: the column pairs of the join spec
    pair_index,        \* number of column pairs the loop has handled
    join_pairs_result, \* the local list join_pairs_result
    candidate_join_column_scores,    \* the local list of the same name
    found_pairs,       \* self.pairs
    all_results,       \* the local list all_results
    return_result,     \* outcome of _download_general
    dpc                \* position in _download_general

download_vars == << column_pairs, pair_index, join_pairs_result,
                    candidate_join_column_scores, found_pairs, all_results,
                    return_result, dpc >>

\* one call of Datamart.generate_datamart_query_from_data
VARIABLES
    constraint_columns, \* the columns the data constraints name, as supplied
    columns_done,      \* number of columns the loop has handled
    keywords,          \* the local list keywords
    all_query_variables,   \* the local list all_query_variables
    generated_query,   \* outcome of generate_datamart_query_from_data
    qpc                \* position in generate_datamart_query_from_data

query_vars == << constraint_columns, columns_done, keywords, all_query_variables,
                 generated_query, qpc >>

\* a MaterializerCache, the memcache server and the cache files behind it
VARIABLES
    mc,                \* self.mc is a client (TRUE) or None (FALSE)
    memcache,          \* the entries the memcache server holds, by name
    cache_files,       \* per hash key, what the cache file <key>.pkl holds
    add_response,      \* the last call of add_to_memcache and its outcome
    cache_results,     \* the last call of get_cache_results and its outcome
    just_stored,       \* the key and value of an add_to_memcache that returned
                       \* True, nothing having touched the cache since
    mpc                \* the call made last

materializer_vars == << mc, memcache, cache_files, add_response, cache_results,
                        just_stored, mpc >>

\* one call of DatamartQueryCursor._search_with_time_columns
VARIABLES
    time_columns_left, \* the local list time_columns_left
    time_columns_right,    \* the local list time_columns_right
    search_results,    \* the search results given: per result, its own attributes
    shared_dicts,      \* per result given, what the search_result and query_json
                       \* dicts it refers to hold
    can_consider_datasets, \* the local dict can_consider_datasets
    results_done,      \* number of results the last loop has handled
    combines_done,     \* number of combinations handled for the result at hand
    filtered_search_result,    \* the local list filtered_search_result
    tpc                \* position in _search_with_time_columns

timecolumns_vars == << time_columns_left, time_columns_right, search_results,
                       shared_dicts, can_consider_datasets, results_done,
                       combines_done, filtered_search_result, tpc >>

\* the state outside the call of augment()
outside_augment == << search_vars, joinspec_vars, cursor_vars, download_vars,
                      query_vars, materializer_vars, timecolumns_vars >>

\* the state outside the call of _search_datamart()
outside_search == << vars, joinspec_vars, cursor_vars, download_vars, query_vars,
                     materializer_vars, timecolumns_vars >>

\* the state outside the calls on one search result
outside_joinspec == << vars, search_vars, cursor_vars, download_vars, query_vars,
                       materializer_vars, timecolumns_vars >>

\* the state outside the calls of get_next_page
outside_cursor == << vars, search_vars, joinspec_vars, download_vars, query_vars,
                     materializer_vars, timecolumns_vars >>

\* the state outside the call of _download_general
outside_download == << vars, search_vars, joinspec_vars, cursor_vars, query_vars,
                       materializer_vars, timecolumns_vars >>

\* the state outside the call of generate_datamart_query_from_data
outside_query == << vars, search_vars, joinspec_vars, cursor_vars, download_vars,
                    materializer_vars, timecolumns_vars >>

\* the state outside the MaterializerCache
outside_materializer == << vars, search_vars, joinspec_vars, cursor_vars, download_vars,
                           query_vars, timecolumns_vars >>

\* the state outside the call of _search_with_time_columns
outside_timecolumns == << vars, search_vars, joinspec_vars, cursor_vars, download_vars,
                          query_vars, materializer_vars >>

all_vars == << vars, outside_augment >>

\* no cursor is in use
CursorIdle ==
    /\ search_query = << >>
    /\ current_searching_query_index = 0
    /\ remained_part = [none |-> TRUE]
    /\ limit = [none |-> TRUE]
    /\ timeout = 0
    /\ current_result = << >>
    /\ shares_remained = FALSE
    /\ search_res = [none |-> TRUE]
    /\ page = [kind |-> "pending"]
    /\ found_results = {}
    /\ returned = {}
    /\ exhausted = FALSE
    /\ limits = {}
    /\ calls = 0
    /\ cpc = "idle"

\* no search is under way
SearchIdle ==
    /\ augment_with_time = FALSE
    /\ tv = << 0, 0 >>
    /\ bindings = << >>
    /\ query_results = << >>
    /\ time_score = [assigned |-> FALSE]
    /\ result_index = 0
    /\ ranked = << >>
    /\ spc = "idle"

\* no search result is being serialized or asked for join hints
JoinSpecIdle ==
    /\ this_result = [none |-> TRUE]
    /\ given_columns = [none |-> TRUE]
    /\ serialized = [none |-> TRUE]
    /\ restored = [none |-> TRUE]
    /\ hints = [none |-> TRUE]
    /\ jpc = "idle"

\* no join spec of several column pairs is being downloaded
DownloadIdle ==
    /\ column_pairs = << >>
    /\ pair_index = 0
    /\ join_pairs_result = << >>
    /\ candidate_join_column_scores = << >>
    /\ found_pairs = [none |-> TRUE]
    /\ all_results = << >>
    /\ return_result = [kind |-> "pending"]
    /\ dpc = "idle"

\* no query is being generated
QueryIdle ==
    /\ constraint_columns = << >>
    /\ columns_done = 0
    /\ keywords = << >>
    /\ all_query_variables = << >>
    /\ generated_query = [kind |-> "pending"]
    /\ qpc = "idle"

\* no MaterializerCache is in use
MaterializerIdle ==
    /\ mc = FALSE
    /\ memcache = << >>
    /\ cache_files = << >>
    /\ add_response = [kind |-> "pending"]
    /\ cache_results = [kind |-> "pending"]
    /\ just_stored = [none |-> TRUE]
    /\ mpc = "idle"

\* no search results are being combined with time columns
TimeColumnsIdle ==
    /\ time_columns_left = << >>
    /\ time_columns_right = << >>
    /\ search_results = << >>
    /\ shared_dicts = << >>
    /\ can_consider_datasets = << >>
    /\ results_done = 0
    /\ combines_done = 0
    /\ filtered_search_result = << >>
    /\ tpc = "idle"

\* self.join_pairs: None, or the list holding one TabularJoinSpec, given by the
\* (left group, right group) column numbers of get_column_number_pairs()
NoJoinPairs == [none |-> TRUE, groups |-> <<>>]

\* the spec _search_with_time_columns builds: one group pairing
\* [left time column, left key column] with [right time column, right key column]
TimeJoinPairs(left_cols, rcols) ==
    [ none |-> FALSE,
      groups |-> << [ left |-> <<0, IndexOf(left_cols, QueryVariables[1]) - 1>>,
                      right |-> <<IndexOf(rcols, "t") - 1,
                                  IndexOf(rcols, VariableName) - 1>> ] >> ]

JoinPairChoices(stype, left_cols, rcols) ==
    {NoJoinPairs} \cup
    ( IF /\ stype = "general"
         /\ "t" \in Range(rcols) /\ VariableName \in Range(rcols)
         /\ QueryVariables[1] \in Range(left_cols)
      THEN {TimeJoinPairs(left_cols, rcols)}
      ELSE {} )

AugmentColumnChoices ==
    { NoColumns, Columns(<<>>), Columns(<<0>>), Columns(<<1>>), Columns(<<2, 9>>) }

DisplayColumnChoices == { <<>>, <<0>> }

NoPairs == [none |-> TRUE, list |-> <<>>]
Pending == [kind |-> "pending"]
FailureMessage(text) == [type |-> "str", text |-> text]
Dataset(table) == [type |-> "dataset", table |-> table]
CacheMiss == [type |-> "none"]

Init ==
    /\ supplied_cols \in LeftColumnChoices
    /\ supplied_n \in LeftRowCounts
    /\ search_type \in SearchTypes
    /\ right_cols \in RightColumnChoices(search_type)
    /\ join_pairs \in JoinPairChoices(search_type, supplied_cols, right_cols)
    /\ display_columns \in DisplayColumnChoices
    /\ cache \in {CacheMiss, FailureMessage("failed last time")}
    /\ caller_columns = NoColumns
    /\ augment_columns = NoColumns
    /\ use_cache = FALSE
    /\ cache_key = FALSE
    /\ pairs = NoPairs
    /\ download_result = [cols |-> <<>>, joining_pairs |-> <<>>]
    /\ joined_on = {}
    /\ inner = Pending
    /\ ret = Pending
    /\ pc = "new"
    /\ SearchIdle
    /\ JoinSpecIdle
    /\ CursorIdle
    /\ DownloadIdle
    /\ QueryIdle
    /\ MaterializerIdle
    /\ TimeColumnsIdle

\* no call of augment() is under way
AugmentIdle ==
    /\ supplied_cols = << >>
    /\ supplied_n = 0
    /\ search_type = "general"
    /\ right_cols = << >>
    /\ join_pairs = NoJoinPairs
    /\ display_columns = << >>
    /\ cache = CacheMiss
    /\ caller_columns = NoColumns
    /\ augment_columns = NoColumns
    /\ use_cache = FALSE
    /\ cache_key = FALSE
    /\ pairs = NoPairs
    /\ download_result = [cols |-> <<>>, joining_pairs |-> <<>>]
    /\ joined_on = {}
    /\ inner = Pending
    /\ ret = Pending
    /\ pc = "idle"

\* type(x) is string: 'string' is the imported module, never the type of a value
TypeIsString(x) == FALSE

\* augment(supplied_data, augment_columns, use_cache=...) is called (1533-1586)
Call(ac, uc) ==
    /\ pc = "new"
    /\ caller_columns' = ac
    /\ augment_columns' = ac
    /\ use_cache' = uc
    /\ pc' = "cache"
    /\ UNCHANGED << search_result, cache, cache_key, pairs, download_result, joined_on,
                    inner, ret >>
    /\ UNCHANGED outside_augment

\* lines 1588-1608
CacheLookup ==
    /\ pc = "cache"
    /\ IF ~use_cache
       THEN /\ cache_key' = FALSE /\ pc' = "download" /\ ret' = ret
       ELSE \E lookup_fails \in BOOLEAN :
              IF lookup_fails
              THEN \* except Exception: cache_key = None
                   /\ cache_key' = FALSE /\ pc' = "download" /\ ret' = ret
              ELSE IF cache.type = "none"
                   THEN /\ cache_key' = TRUE /\ pc' = "download" /\ ret' = ret
                   ELSE IF TypeIsString(cache)
                        THEN \* the ValueError is raised inside the try block
                             /\ cache_key' = FALSE /\ pc' = "download" /\ ret' = ret
                        ELSE /\ cache_key' = TRUE
                             /\ ret' = [kind |-> "return", value |-> cache]
                             /\ pc' = "done"
    /\ UNCHANGED << inputs, cache, augment_columns, use_cache, pairs,
                    download_result, joined_on, inner >>
    /\ UNCHANGED outside_augment

Raise(exc, why) == [kind |-> "raise", exc |-> exc, why |-> why]

\* get_join_hints(left_df, right_df) with both tables (1871-1883): list.index
\* raises ValueError for a name that is not a column
JoinHintsFail(left_cols, rcols) ==
    \/ \E i \in DOMAIN QueryVariables : QueryVariables[i] \notin Range(left_cols)
    \/ VariableName \notin Range(rcols)

JoinHints(left_cols, rcols) ==
    [ none |-> FALSE,
      groups |-> [i \in DOMAIN QueryVariables |->
                    [ left |-> <<IndexOf(left_cols, QueryVariables[i]) - 1>>,
                      right |-> <<IndexOf(rcols, VariableName) - 1>> ]] ]

\* names of the right columns of a (left group, right group) pair
RightGroupNames(group, rcols) == { rcols[i + 1] : i \in Range(group.right) }

\* _dummy_download_wikidata: the supplied columns, then one blank column for
\* every needed property (here: every right column but q_node)
DummyName(p) ==
    CASE p = "b" -> "a_b" [] p = "c" -> "a_c" [] p = "id" -> "a_id" [] OTHER -> "a_p"

DummyColumns(left_cols, rcols) ==
    LET p_nodes_needed == Restrict(rcols, Range(rcols) \ {"q_node"})
    IN  left_cols \o [i \in DOMAIN p_nodes_needed |-> DummyName(p_nodes_needed[i])]

\* "if not q_node_column_number": the column is missing, or is column 0
NoQNodeColumnNumber(left_cols) ==
    IF TargetQNodeColumn \in Range(left_cols)
    THEN IndexOf(left_cols, TargetQNodeColumn) - 1 = 0
    ELSE TRUE

\* _download_general (1231-1370), one find_pair call per column pair
DownloadGeneral(P, ok) ==
    IF join_pairs.none /\ JoinHintsFail(supplied_cols, right_cols)
    THEN /\ inner' = Raise("ValueError", "join hints")
         /\ pc' = "result"
         /\ UNCHANGED << pairs, download_result, joined_on >>
    ELSE IF ~ok
    THEN /\ inner' = Raise("ValueError", "All join attempt failed!")
         /\ pc' = "result"
         /\ UNCHANGED << pairs, download_result, joined_on >>
    ELSE LET candidate == IF join_pairs.none THEN JoinHints(supplied_cols, right_cols)
                          ELSE join_pairs
             found == find_pair(P)
         IN  /\ pairs' = [none |-> FALSE, list |-> found.pairs]
             /\ download_result' = [cols |-> right_cols,
                                    joining_pairs |-> found.joining_pairs]
             /\ joined_on' = RightGroupNames(candidate.groups[1], right_cols)
             /\ pc' = "guard"
             /\ inner' = inner

\* _download_wikidata (1401-1491)
DownloadWikidata(P, ok) ==
    IF NoQNodeColumnNumber(supplied_cols)
    THEN \* the dummy table; self.pairs is left as it was
         /\ download_result' =
                [ cols |-> DummyColumns(supplied_cols, right_cols),
                  joining_pairs |-> [r \in 0..(supplied_n - 1) |-> <<>>] ]
         /\ pc' = "guard"
         /\ UNCHANGED << pairs, joined_on, inner >>
    ELSE IF ~ok
    THEN \* results is None: an empty frame comes back, and
         \* download_result['joining_pairs'] raises KeyError
         /\ inner' = Raise("KeyError", "joining_pairs")
         /\ pc' = "result"
         /\ UNCHANGED << pairs, download_result, joined_on >>
    ELSE LET found == find_pair(P)
         IN  /\ pairs' = [none |-> FALSE, list |-> found.pairs]
             /\ download_result' = [cols |-> right_cols,
                                    joining_pairs |-> found.joining_pairs]
             /\ joined_on' = {"q_node"}
             /\ pc' = "guard"
             /\ inner' = inner

\* _download_vector (1493-1519)
DownloadVector(P, ok) ==
    IF TargetQNodeColumn \notin Range(supplied_cols)
    THEN /\ inner' = Raise("ValueError", "no q node column")
         /\ pc' = "result"
         /\ UNCHANGED << pairs, download_result, joined_on >>
    ELSE IF ~ok
    THEN /\ inner' = Raise("Exception", "fetch_fb_embeddings")
         /\ pc' = "result"
         /\ UNCHANGED << pairs, download_result, joined_on >>
    ELSE LET found == find_pair(P)
         IN  /\ pairs' = [none |-> FALSE, list |-> found.pairs]
             /\ download_result' = [cols |-> right_cols,
                                    joining_pairs |-> found.joining_pairs]
             /\ joined_on' = {"q_node"}
             /\ pc' = "guard"
             /\ inner' = inner

\* _augment up to line 1688: download(supplied_data_df, ...) by search type
Download(P, ok) ==
    /\ pc = "download"
    /\ P \in PairSets(supplied_n)
    /\ CASE search_type = "general" -> DownloadGeneral(P, ok)
         [] search_type = "wikidata" -> DownloadWikidata(P, ok)
         [] OTHER -> DownloadVector(P, ok)
    /\ UNCHANGED << inputs, cache, augment_columns, use_cache, cache_key, ret >>
    /\ UNCHANGED outside_augment

\* a variant that runs no duplicate check at all
GuardRaisesNever == "no"

\* _augment lines 1689-1719: the duplicate checks of a general search's join
GuardRaises ==
    IF search_type = "general"
    THEN IF TooManyJoinColumns(download_result.joining_pairs, supplied_n)
         THEN "Too much available join columns"
         ELSE IF NToMRelationship(pairs.list, supplied_n)
              THEN "Should not augment for n-m relationship."
              ELSE "no"
    ELSE "no"

Guard ==
    /\ pc = "guard"
    /\ IF GuardRaises # "no"
       THEN /\ inner' = Raise("ValueError", GuardRaises) /\ pc' = "result"
       ELSE /\ inner' = inner /\ pc' = "merge"
    /\ UNCHANGED << inputs, cache, augment_columns, use_cache, cache_key, pairs,
                    download_result, joined_on, ret >>
    /\ UNCHANGED outside_augment

\* _augment lines 1722-1814: the merge, and the dataset built around it
Merge ==
    /\ pc = "merge"
    /\ IF SpecialRequirementFails(display_columns, augment_columns)
       THEN /\ inner' = Raise("TypeError", "len(None)")
            /\ augment_columns' = augment_columns
       ELSE IF pairs.none
       THEN \* "for r1, r2 in self.pairs" with self.pairs None
            /\ inner' = Raise("TypeError", "pairs is None")
            /\ augment_columns' = WithDisplayColumns(display_columns, augment_columns)
       ELSE /\ augment_columns' = WithDisplayColumns(display_columns, augment_columns)
            /\ inner' = [ kind |-> "table",
                          table |-> MergeTables(supplied_cols, supplied_n,
                                                download_result.cols, pairs.list,
                                                search_type, augment_columns',
                                                MetadataNames(right_cols)) ]
    /\ pc' = "result"
    /\ UNCHANGED << inputs, cache, use_cache, cache_key, pairs, download_result,
                    joined_on, ret >>
    /\ UNCHANGED outside_augment

\* timeout_call gives up on _augment and returns None
Timeout ==
    /\ pc \in {"download", "guard", "merge"}
    /\ inner' = [kind |-> "timeout"]
    /\ pc' = "result"
    /\ UNCHANGED << inputs, cache, augment_columns, use_cache, cache_key, pairs,
                    download_result, joined_on, ret >>
    /\ UNCHANGED outside_augment

\* augment() lines 1630-1664, with res what timeout_call gave
Finish ==
    /\ pc = "result"
    /\ LET res == CASE inner.kind = "table" -> Dataset(inner.table)
                    [] inner.kind = "timeout" ->
                         FailureMessage("failed because nothing returned")
                    [] OTHER -> FailureMessage(inner.why)
       IN  IF use_cache /\ cache_key
           THEN \E response \in BOOLEAN, save_raises \in BOOLEAN :
                  /\ cache' = IF response THEN res ELSE cache
                  /\ IF ~TypeIsString(res) /\ res.type = "str" /\ save_raises
                     THEN \* MetadataCache.save_metadata_from_dataset(res) on a str
                          ret' = [kind |-> "raise", exc |-> "Exception",
                                  value |-> res]
                     ELSE IF TypeIsString(res)
                          THEN ret' = [kind |-> "raise", exc |-> "ValueError",
                                       value |-> res]
                          ELSE ret' = [kind |-> "return", value |-> res]
           ELSE /\ cache' = cache
                /\ IF TypeIsString(res)
                   THEN ret' = [kind |-> "raise", exc |-> "ValueError", value |-> res]
                   ELSE ret' = [kind |-> "return", value |-> res]
    /\ pc' = "done"
    /\ UNCHANGED << inputs, augment_columns, use_cache, cache_key, pairs,
                    download_result, joined_on, inner >>
    /\ UNCHANGED outside_augment

Next ==
    \/ \E ac \in AugmentColumnChoices, uc \in BOOLEAN : Call(ac, uc)
    \/ CacheLookup
    \/ \E P \in PairSets(supplied_n), ok \in BOOLEAN : Download(P, ok)
    \/ Guard
    \/ Merge
    \/ Timeout
    \/ Finish

Spec == Init /\ [][Next]_all_vars

\* ------------------------------------------------- _search_datamart
MaxResults == 2         \* the store holds at most MaxResults hits for a query

\* seconds of a day: timestamp() of a date counts seconds
SecondsPerDay == 86400

\* the dates of the model, as days since 2020-01-01:
\* 2020-01-01, 2020-06-01, 2020-06-30, 2020-12-31
Dates == {0, 152, 181, 365}

\* pd.to_datetime(date).timestamp()
Timestamp(date) == date * SecondsPerDay

RECURSIVE Gcd(_, _)
Gcd(a, b) == IF b = 0 THEN a ELSE Gcd(b, a % b)

\* the float a / b (b > 0, a >= 0), kept as a fraction in lowest terms
Divide(a, b) == LET g == Gcd(a, b) IN [num |-> a \div g, den |-> b \div g]
Float(k) == [num |-> k, den |-> 1]
FloatAdd(x, y) == Divide(x.num * y.den + y.num * x.den, x.den * y.den)
FloatLess(x, y) == x.num * y.den < y.num * x.den
FloatLeq(x, y) == x.num * y.den <= y.num * x.den

\* each_result['score'] is absent, or holds a value
NoScore == [has |-> FALSE, value |-> Float(0)]
ScoreOf(x) == [has |-> TRUE, value |-> x]

\* the hits the store may hold: a dataset time range and, when keywords
\* matched, the relevance the store computed
Hits ==
    { [start_time |-> ds, end_time |-> de, score |-> sc] :
        ds \in Dates, de \in Dates, sc \in {NoScore, ScoreOf(Float(2))} }

ValidHits == { h \in Hits : h.start_time <= h.end_time }

RECURSIVE SeqsUpTo(_, _)
SeqsUpTo(S, n) ==
    IF n = 0 THEN { << >> }
    ELSE LET shorter == SeqsUpTo(S, n - 1)
         IN  shorter \cup { Append(q, x) : q \in { t \in shorter : Len(t) = n - 1 }, x \in S }

\* a variant of the filter with strict comparisons: ranges that touch fail
SparqlTimeFilterStrict(start_time, end_time, start_date, end_date) ==
    ~((Timestamp(start_time) >= Timestamp(end_date))
      \/ (Timestamp(end_time) <= Timestamp(start_date)))

\* FILTER(!((?start_time > end_date) || (?end_time < start_date)))
SparqlTimeFilter(start_time, end_time, start_date, end_date) ==
    ~((Timestamp(start_time) > Timestamp(end_date))
      \/ (Timestamp(end_time) < Timestamp(start_date)))

\* Utils.overlap(range_a, range_b), ranges as << start, end >>
overlap(a, b) == a[1] <= b[2] /\ b[1] <= a[2]

Unassigned == [assigned |-> FALSE]
Assigned(x) == [assigned |-> TRUE, value |-> x]

\* a variant that counts the end day in
DenominatorInclusive(start_date, end_date) == end_date - start_date + SecondsPerDay

\* float(end_date - start_date)
Denominator(start_date, end_date) == end_date - start_date

\* a variant whose branch for a dataset range inside the query range counts
\* from the query's start
TimeScoreFromQueryStart(start_date, end_date, start_time, end_time, before) ==
    LET denominator == Denominator(start_date, end_date)
    IN  IF end_date > end_time
        THEN IF start_date > end_time THEN Assigned(Float(0))
             ELSE Assigned(Divide(end_time - start_date, denominator))
        ELSE IF end_date >= start_time /\ end_time >= end_date
        THEN IF start_date >= start_time THEN Assigned(Float(1))
             ELSE Assigned(Divide(end_date - start_time, denominator))
        ELSE Assigned(Float(0))

\* lines 465-479; before is time_score as the last iteration left it, which
\* stays when no branch assigns
TimeScore(start_date, end_date, start_time, end_time, before) ==
    LET denominator == Denominator(start_date, end_date)
    IN  IF end_date > end_time
        THEN IF start_date > end_time
             THEN Assigned(Float(0))
             ELSE IF start_date >= start_time /\ end_time >= start_date
             THEN Assigned(Divide(end_time - start_date, denominator))
             ELSE IF start_time > start_date
             THEN Assigned(Divide(end_time - start_time, denominator))
             ELSE before
        ELSE IF end_date >= start_time /\ end_time >= end_date
        THEN IF start_date >= start_time
             THEN Assigned(Float(1))
             ELSE IF start_time > start_date
             THEN Assigned(Divide(end_date - start_time, denominator))
             ELSE before
        ELSE IF start_time > end_date
        THEN Assigned(Float(0))
        ELSE before

\* lines 481-485
AttachScore(each_result, ts) ==
    IF ts # Float(0) /\ each_result.score.has
    THEN [each_result EXCEPT !.score = ScoreOf(FloatAdd(each_result.score.value, ts))]
    ELSE [each_result EXCEPT !.score = ScoreOf(ts)]

\* DatamartSearchResult.score(): the value the search result carries
score(x) == x.score.value

\* list.sort(key=score, reverse=True): stable, greatest score first
RECURSIVE InsertByScore(_, _)
InsertByScore(sorted, x) ==
    IF sorted = << >> THEN << x >>
    ELSE IF FloatLess(score(Head(sorted)), score(x))
         THEN << x >> \o sorted
         ELSE << Head(sorted) >> \o InsertByScore(Tail(sorted), x)

RECURSIVE SortByScore(_)
SortByScore(xs) ==
    IF xs = << >> THEN << >>
    ELSE InsertByScore(SortByScore(SubSeq(xs, 1, Len(xs) - 1)), xs[Len(xs)])

SearchInit ==
    /\ augment_with_time \in BOOLEAN
    /\ tv \in { r \in Dates \X Dates : r[1] < r[2] }
    /\ bindings \in SeqsUpTo(ValidHits, MaxResults)
    /\ query_results = << >>
    /\ time_score = Unassigned
    /\ result_index = 0
    /\ ranked = << >>
    /\ spc = "query"
    /\ AugmentIdle
    /\ JoinSpecIdle
    /\ CursorIdle
    /\ DownloadIdle
    /\ QueryIdle
    /\ MaterializerIdle
    /\ TimeColumnsIdle

\* query_by_sparql (lines 441-445): a query with a temporal variable carries
\* the time filter; a search that augments with time does not
Query ==
    /\ spc = "query"
    /\ LET all == [i \in DOMAIN bindings |-> i]
           kept == IF augment_with_time THEN all
                   ELSE SelectSeq(all, LAMBDA i :
                            SparqlTimeFilter(bindings[i].start_time,
                                             bindings[i].end_time, tv[1], tv[2]))
       IN  query_results' =
              [k \in DOMAIN kept |->
                 [ id |-> kept[k],
                   start_time |-> bindings[kept[k]].start_time,
                   end_time |-> bindings[kept[k]].end_time,
                   score |-> bindings[kept[k]].score ]]
    /\ spc' = "score"
    /\ UNCHANGED << augment_with_time, tv, bindings, time_score, result_index, ranked >>
    /\ UNCHANGED outside_search

\* one iteration of "for i, each_result in enumerate(query_results)"
ScoreResult ==
    /\ spc = "score"
    /\ result_index < Len(query_results)
    /\ LET each_result == query_results[result_index + 1]
           ts == TimeScore(Timestamp(tv[1]), Timestamp(tv[2]),
                           Timestamp(each_result.start_time),
                           Timestamp(each_result.end_time), time_score)
       IN  IF ts.assigned
           THEN /\ time_score' = ts
                /\ query_results' = [query_results EXCEPT ![result_index + 1] =
                                        AttachScore(each_result, ts.value)]
                /\ result_index' = result_index + 1
                /\ spc' = spc
           ELSE \* time_score is read before any assignment
                /\ spc' = "raised"
                /\ UNCHANGED << time_score, query_results, result_index >>
    /\ UNCHANGED << augment_with_time, tv, bindings, ranked >>
    /\ UNCHANGED outside_search

\* line 491
SortResults ==
    /\ spc = "score"
    /\ result_index = Len(query_results)
    /\ ranked' = SortByScore(query_results)
    /\ spc' = "done"
    /\ UNCHANGED << augment_with_time, tv, bindings, query_results, time_score,
                    result_index >>
    /\ UNCHANGED outside_search

SearchNext == Query \/ ScoreResult \/ SortResults

SearchSpec == SearchInit /\ [][SearchNext]_all_vars

\* ------------------------------------------------------- TabularJoinSpec
MaxGroups == 2          \* a list of column groups has at most MaxGroups groups

None == [none |-> TRUE]
Some(x) == [none |-> FALSE, value |-> x]

DatasetColumn(resource_id, column_index) ==
    [resource_id |-> resource_id, column_index |-> column_index]

ShorterLen(a, b) == IF Len(a) < Len(b) THEN Len(a) ELSE Len(b)

\* a variant of the constructor that keeps the lists as given
TabularJoinSpecUntruncated(left_columns, right_columns) ==
    [left_columns |-> left_columns, right_columns |-> right_columns]

\* TabularJoinSpec.__init__ (2010-2022)
TabularJoinSpec(left_columns, right_columns) ==
    IF Len(left_columns) # Len(right_columns)
    THEN LET shorter_len == ShorterLen(right_columns, left_columns)
         IN  [ left_columns |-> SubSeq(left_columns, 1, shorter_len),
               right_columns |-> SubSeq(right_columns, 1, shorter_len) ]
    ELSE [left_columns |-> left_columns, right_columns |-> right_columns]

ColumnIndexes(group) == [i \in DOMAIN group |-> group[i].column_index]

\* get_column_number_pairs (2028-2042): zip stops at the shorter list
get_column_number_pairs(spec) ==
    [i \in 1..ShorterLen(spec.left_columns, spec.right_columns) |->
        << ColumnIndexes(spec.left_columns[i]), ColumnIndexes(spec.right_columns[i]) >>]

Returned(x) == [kind |-> "return", value |-> x]

Transferred(groups) ==
    [i \in DOMAIN groups |->
        [j \in DOMAIN groups[i] |-> DatasetColumn(None, groups[i][j])]]

\* from_column_number_pairs (2044-2069); left_pairs and right_pairs are None
\* or lists of lists of column numbers (a column number: Some(n), or None)
from_column_number_pairs(left_pairs, right_pairs) ==
    IF left_pairs.none \/ right_pairs.none
    THEN Raise("TypeError", "len(None)")
    ELSE IF Len(left_pairs.value) # Len(right_pairs.value)
    THEN Raise("ValueError", "The given join pairs length are different.")
    ELSE Returned(TabularJoinSpec(Transferred(left_pairs.value),
                                  Transferred(right_pairs.value)))

\* ------------------------------------------------------- get_join_hints
\* an entry of search_result['extra_information']: the metadata of column
\* 'number', or a value that is no dict (the first rows, as csv text)
ColumnEntry(number, name) == [dict |-> TRUE, number |-> number, name |-> name]
TextEntry == [dict |-> FALSE, number |-> 0, name |-> ""]

\* the loop of lines 1851-1854 over the entries: the number of the first
\* column entry named variableName; a value without keys() met before it
\* raises AttributeError
RECURSIVE RightColNumber(_)
RightColNumber(entries) ==
    IF entries = << >> THEN Returned(None)
    ELSE IF ~Head(entries).dict THEN Raise("AttributeError", "keys")
    ELSE IF Head(entries).name = VariableName
         THEN Returned(Some(Head(entries).number))
         ELSE RightColNumber(Tail(entries))

\* lines 1847-1867: the hints when a table is missing; whatever goes wrong is
\* logged and "finally: return results" gives the empty list
DeferredJoinHints(r) ==
    LET right_col_number == RightColNumber(r.extra_information)
        variables == r.variables
        missing == \E i \in DOMAIN variables :
                      variables[i] \notin Range(r.supplied_dataframe.value)
    IN  IF right_col_number.kind = "raise" THEN << >>
        ELSE LET join_right_cols == << DatasetColumn(None, right_col_number.value) >>
             IN  IF r.supplied_dataframe.none
                 THEN << TabularJoinSpec(<< << >> >>, << join_right_cols >>) >>
                 ELSE IF missing THEN << >>
                 ELSE LET join_left_cols ==
                            [i \in DOMAIN variables |->
                               DatasetColumn(None,
                                   Some(IndexOf(r.supplied_dataframe.value,
                                                variables[i]) - 1))]
                      IN  << TabularJoinSpec(<< join_left_cols >>,
                                             << join_right_cols >>) >>

\* a variant that looks no column up
LiveJoinHintsUnchecked(r, left_df, right_df) ==
    Returned(<< TabularJoinSpec(<< >>, << >>) >>)

\* lines 1868-1881: the hints from the two tables; list.index raises
\* ValueError inside the loop over the declared variables
LiveJoinHints(r, left_df, right_df) ==
    LET variables == r.variables
    IN  IF \E i \in DOMAIN variables : variables[i] \notin Range(left_df)
        THEN Raise("ValueError", "is not in list")
        ELSE IF variables # << >> /\ VariableName \notin Range(right_df)
        THEN Raise("ValueError", "is not in list")
        ELSE LET left_columns ==
                    [i \in DOMAIN variables |->
                       << DatasetColumn(None, Some(IndexOf(left_df, variables[i]) - 1)) >>]
                 right_columns ==
                    [i \in DOMAIN variables |->
                       << DatasetColumn(None, Some(IndexOf(right_df, VariableName) - 1)) >>]
             IN  Returned(<< TabularJoinSpec(left_columns, right_columns) >>)

\* get_join_hints(left_df, right_df) of a general search result; the tables
\* are None or lists of column names
get_join_hints(r, left_df, right_df) ==
    IF left_df.none \/ right_df.none
    THEN Returned(DeferredJoinHints(r))
    ELSE LiveJoinHints(r, left_df.value, right_df.value)

\* ---------------------------------------------- serialize / deserialize
\* JSON text, as the value it denotes
JNull == [json |-> "null"]
JNumber(n) == [json |-> "number", n |-> n]
JArray(items) == [json |-> "array", items |-> items]
JObject(x) == [json |-> "object", members |-> x]

\* json.dumps / json.loads of a column number or None
DumpNumber(x) == IF x.none THEN JNull ELSE JNumber(x.value)
LoadNumber(j) == IF j.json = "null" THEN None ELSE Some(j.n)

\* json.dumps / json.loads of None or a list of lists of column numbers
DumpGroups(g) ==
    IF g.none THEN JNull
    ELSE JArray([i \in DOMAIN g.value |->
                   JArray([k \in DOMAIN g.value[i] |-> DumpNumber(g.value[i][k])])])
LoadGroups(j) ==
    IF j.json = "null" THEN None
    ELSE Some([i \in DOMAIN j.items |->
                 [k \in DOMAIN j.items[i].items |-> LoadNumber(j.items[i].items[k])]])

\* search_result, query_json and search_type of a search result
Identity(r) ==
    [ search_result |-> r.extra_information,
      query_json |-> r.variables,
      search_type |-> "general" ]

\* pd.read_csv of the first rows kept in extra_information: its width
FirstRowsWidth(entries) == Len(SelectSeq(entries, LAMBDA e : e.dict))
HasFirstRows(entries) == \E i \in DOMAIN entries : ~entries[i].dict

\* lines 1923-1924: the join pairs serialize() works with
JoinPairsToSerialize(r) ==
    IF r.join_pairs.none \/ r.join_pairs.value = << >>
    THEN get_join_hints(r, r.supplied_dataframe, r.right_df)
    ELSE Returned(r.join_pairs.value)

\* lines 1941-1946: "each_col > temp_df.shape[1]" and temp_df.columns[each_col]
ColumnNameLookupFails(numbers, width) ==
    \E i \in DOMAIN numbers : \E k \in DOMAIN numbers[i][2] :
        \/ numbers[i][2][k].none
        \/ numbers[i][2][k].value = width

Lefts(numbers) == [i \in DOMAIN numbers |-> numbers[i][1]]
Rights(numbers) == [i \in DOMAIN numbers |-> numbers[i][2]]

\* serialize() of a general search result (1908-1976): the text, and the
\* join pairs the object holds afterwards
serialize(r) ==
    LET found == JoinPairsToSerialize(r)
    IN  IF found.kind = "raise" THEN found
        ELSE IF Len(found.value) = 0 \/ r.supplied_dataframe.none
        THEN Returned([ text |-> JObject([ metadata |-> Identity(r),
                                           left_columns |-> JNull,
                                           right_columns |-> JNull ]),
                        join_pairs |-> Some(found.value) ])
        ELSE LET join_pair_numbers == get_column_number_pairs(found.value[1])
             IN  IF ~HasFirstRows(r.extra_information)
                 THEN Raise("KeyError", "first_10_rows")
                 ELSE IF ColumnNameLookupFails(join_pair_numbers,
                                               FirstRowsWidth(r.extra_information))
                 THEN Raise("Exception", "column name lookup")
                 ELSE Returned(
                        [ text |-> JObject(
                              [ metadata |-> Identity(r),
                                left_columns |-> DumpGroups(Some(Lefts(join_pair_numbers))),
                                right_columns |-> DumpGroups(Some(Rights(join_pair_numbers))) ]),
                          join_pairs |-> Some(found.value) ])

\* deserialize(text) (1978-1990)
deserialize(text) ==
    LET serialize_result == text.members
        spec == from_column_number_pairs(LoadGroups(serialize_result.left_columns),
                                         LoadGroups(serialize_result.right_columns))
    IN  IF spec.kind = "raise" THEN spec
        ELSE Returned([ supplied_dataframe |-> None,
                        right_df |-> None,
                        variables |-> serialize_result.metadata.query_json,
                        extra_information |-> serialize_result.metadata.search_result,
                        join_pairs |-> Some(<< spec.value >>) ])

\* ------------------------------- calls on one general search result
SuppliedChoices == { None, Some(<<"a", "b">>), Some(<<"b", "a">>) }
RightDfChoices == { None, Some(<<"k", "c">>), Some(<<"c", "k">>), Some(<<"c">>) }
VariableChoices == { << >>, <<"a">>, <<"a", "b">>, <<"z">> }
ExtraInformationChoices ==
    { << ColumnEntry(0, "k"), ColumnEntry(1, "c"), TextEntry >>,
      << ColumnEntry(0, "c"), ColumnEntry(1, "k"), TextEntry >>,
      << ColumnEntry(0, "c"), TextEntry >> }

\* the column groups a caller may give: one column, or two
ColumnNumberGroups == { << Some(1) >>, << Some(0), Some(1) >> }
GroupLists == SeqsUpTo(ColumnNumberGroups, MaxGroups)

JoinSpecInit ==
    /\ this_result \in
          { [ supplied_dataframe |-> sd, right_df |-> rd, variables |-> v,
              extra_information |-> e, join_pairs |-> None ] :
              sd \in SuppliedChoices, rd \in RightDfChoices,
              v \in VariableChoices, e \in ExtraInformationChoices }
    /\ given_columns = None
    /\ serialized = None
    /\ restored = None
    /\ hints = None
    /\ jpc = "new"
    /\ AugmentIdle
    /\ SearchIdle
    /\ CursorIdle
    /\ DownloadIdle
    /\ QueryIdle
    /\ MaterializerIdle
    /\ TimeColumnsIdle

\* set_join_pairs([TabularJoinSpec(left_columns, right_columns)]) (1825-1831)
SetJoinPairs(left_groups, right_groups) ==
    /\ jpc = "new"
    /\ given_columns' = Some([ left_columns |-> Transferred(left_groups),
                               right_columns |-> Transferred(right_groups) ])
    /\ this_result' =
          [this_result EXCEPT !.join_pairs =
              Some(<< TabularJoinSpec(Transferred(left_groups),
                                      Transferred(right_groups)) >>)]
    /\ jpc' = "set"
    /\ UNCHANGED << serialized, restored, hints >>
    /\ UNCHANGED outside_joinspec

\* text = this_result.serialize()
Serialize ==
    /\ jpc \in {"new", "set", "adopted"}
    /\ LET res == serialize(this_result)
       IN  IF res.kind = "raise"
           THEN /\ jpc' = "serialize_raised"
                /\ serialized' = res
                /\ this_result' = this_result
           ELSE /\ jpc' = "serialized"
                /\ serialized' = [ kind |-> "text", origin |-> "serialize",
                                   text |-> res.value.text ]
                /\ this_result' = [this_result EXCEPT !.join_pairs = res.value.join_pairs]
    /\ UNCHANGED << given_columns, restored, hints >>
    /\ UNCHANGED outside_joinspec

\* a text produced elsewhere arrives, with any two lists of column groups
Receive(left_pairs, right_pairs) ==
    /\ jpc = "new"
    /\ serialized' = [ kind |-> "text", origin |-> "received",
                       text |-> JObject([ metadata |-> Identity(this_result),
                                          left_columns |-> DumpGroups(left_pairs),
                                          right_columns |-> DumpGroups(right_pairs) ]) ]
    /\ jpc' = "serialized"
    /\ UNCHANGED << this_result, given_columns, restored, hints >>
    /\ UNCHANGED outside_joinspec

\* restored = DatamartSearchResult.deserialize(text)
Deserialize ==
    /\ jpc = "serialized"
    /\ restored' = deserialize(serialized.text)
    /\ jpc' = IF restored'.kind = "raise" THEN "deserialize_raised" ELSE "restored"
    /\ UNCHANGED << this_result, given_columns, serialized, hints >>
    /\ UNCHANGED outside_joinspec

\* the program goes on with the restored search result
Adopt ==
    /\ jpc = "restored"
    /\ serialized.origin = "serialize"
    /\ this_result' = restored.value
    /\ jpc' = "adopted"
    /\ UNCHANGED << given_columns, serialized, restored, hints >>
    /\ UNCHANGED outside_joinspec

\* get_join_hints(None, None), and get_join_hints(left_df, right_df)
GetJoinHints(left_df, right_df) ==
    /\ jpc = "new"
    /\ hints' = [ left_df |-> left_df, right_df |-> right_df,
                  deferred |-> get_join_hints(this_result, None, None),
                  live |-> get_join_hints(this_result, Some(left_df), Some(right_df)) ]
    /\ jpc' = "hinted"
    /\ UNCHANGED << this_result, given_columns, serialized, restored >>
    /\ UNCHANGED outside_joinspec

JoinSpecNext ==
    \/ \E lg \in GroupLists, rg \in GroupLists : SetJoinPairs(lg, rg)
    \/ Serialize
    \/ \E lp \in {None} \cup {Some(g) : g \in GroupLists},
          rp \in {None} \cup {Some(g) : g \in GroupLists} : Receive(lp, rp)
    \/ Deserialize
    \/ Adopt
    \/ \E ld \in {sd.value : sd \in SuppliedChoices \ {None}},
          rd \in {x.value : x \in RightDfChoices \ {None}} : GetJoinHints(ld, rd)

JoinSpecSpec == JoinSpecInit /\ [][JoinSpecNext]_all_vars

\* ------------------------------------------- DatamartQueryCursor.get_next_page
MaxCalls == 3           \* get_next_page is called at most MaxCalls times
MaxLimit == 3           \* the limits of the calls are None or 1..MaxLimit

\* "if timeout is None: timeout = 1800"
DefaultTimeout == 1800

\* a search result of the cursor: the dataset it names and its score()
FoundResult(name, s) == [id |-> name, score |-> ScoreOf(Float(s))]

\* what the first and the second query of a cursor may find
FirstQueryFinds ==
    { << >>, << FoundResult("a", 19) >>, << FoundResult("a", 19), FoundResult("b", 1) >> }
SecondQueryFinds ==
    { << >>, << FoundResult("c", 18) >>, << FoundResult("c", 18), FoundResult("d", 2) >> }

SearchQueryChoices ==
    { << f >> : f \in FirstQueryFinds }
        \cup { << f, g >> : f \in FirstQueryFinds, g \in SecondQueryFinds }

LimitChoices == { None } \cup { Some(n) : n \in 1..MaxLimit }
TimeoutChoices == { None, Some(60) }

\* the state after DatamartQueryCursor.__init__ (lines 96-98)
CursorInit ==
    /\ search_query \in SearchQueryChoices
    /\ current_searching_query_index = 0
    /\ remained_part = None
    /\ limit = None
    /\ timeout = 0
    /\ current_result = << >>
    /\ shares_remained = FALSE
    /\ search_res = None
    /\ page = Pending
    /\ found_results = {}
    /\ returned = {}
    /\ exhausted = FALSE
    /\ limits = {}
    /\ calls = 0
    /\ cpc = "ready"
    /\ AugmentIdle
    /\ SearchIdle
    /\ JoinSpecIdle
    /\ DownloadIdle
    /\ QueryIdle
    /\ MaterializerIdle
    /\ TimeColumnsIdle

\* the results a call handed to its caller
PageResults(p) ==
    IF p.kind = "return" /\ ~p.value.none THEN Range(p.value.value) ELSE {}

\* "self.remained_part or []" (line 145): None and the empty list give a new
\* list; any other list is used itself
RemainedOrNew == IF remained_part.none \/ remained_part.value = << >>
                 THEN << >> ELSE remained_part.value
SharesRemained == ~remained_part.none /\ remained_part.value # << >>

\* len(current_result) > limit (lines 146, 193): an int is not ordered
\* against None
LongerThan(xs, l) ==
    IF l.none THEN Raise("TypeError", "'>' not supported between 'int' and 'NoneType'")
    ELSE Returned(Len(xs) > l.value)

\* xs[:limit] and xs[limit:] for a limit no less than 0
UpTo(xs, n) == SubSeq(xs, 1, IF n < Len(xs) THEN n ELSE Len(xs))
From(xs, n) == SubSeq(xs, n + 1, Len(xs))

\* lines 135-150: the call begins; a remained part longer than the limit is
\* cut and returned without any search
GetNextPage(l, t) ==
    /\ cpc = "ready"
    /\ calls < MaxCalls
    /\ calls' = calls + 1
    /\ limit' = l
    /\ limits' = limits \cup {l}
    /\ timeout' = IF t.none THEN DefaultTimeout ELSE t.value
    /\ returned' = returned \cup PageResults(page)
    /\ exhausted' = ( /\ current_searching_query_index = Len(search_query)
                      /\ found_results \subseteq returned' )
    /\ search_res' = None
    /\ shares_remained' = SharesRemained
    /\ LET longer == LongerThan(RemainedOrNew, l)
       IN  IF longer.kind = "raise"
           THEN /\ page' = longer
                /\ current_result' = RemainedOrNew
                /\ cpc' = "ready"
                /\ UNCHANGED remained_part
           ELSE IF longer.value
           THEN /\ remained_part' = Some(From(RemainedOrNew, l.value))
                /\ current_result' = UpTo(RemainedOrNew, l.value)
                /\ page' = Returned(Some(current_result'))
                /\ cpc' = "ready"
           ELSE /\ current_result' = RemainedOrNew
                /\ page' = Pending
                /\ cpc' = "searching"
                /\ UNCHANGED remained_part
    /\ UNCHANGED << search_query, current_searching_query_index, found_results >>
    /\ UNCHANGED outside_cursor

\* timeout_call(timeout, search, []): the list the search finds, or None when
\* the search failed or was stopped; the search is over at once or takes the
\* seconds that were left
SearchOutcomes(query) == { None, Some(query) }
TimeUsed(left) == IF left > 0 THEN {0, left} ELSE {0}

\* a loop that passes every query, whatever its search returned
AdvancesAlways(res, left) == TRUE

\* lines 171-183: the query is passed unless the search returned None with
\* no time left
Advances(res, left) == ~res.none \/ left > 0

\* lines 153-186: one turn of the loop over the queries not yet searched
SearchQuery(res, time_used) ==
    /\ cpc = "searching"
    /\ current_searching_query_index < Len(search_query)
    /\ res \in SearchOutcomes(search_query[current_searching_query_index + 1])
    /\ time_used \in TimeUsed(timeout)
    /\ search_res' = res
    /\ timeout' = timeout - time_used
    /\ IF Advances(res, timeout')
       THEN /\ current_searching_query_index' = current_searching_query_index + 1
            /\ cpc' = "searching"
       ELSE /\ UNCHANGED current_searching_query_index
            /\ cpc' = "returning"
    /\ IF ~res.none
       THEN /\ current_result' = current_result \o res.value
            /\ found_results' = found_results \cup Range(res.value)
            /\ IF shares_remained
               THEN remained_part' = Some(current_result')
               ELSE UNCHANGED remained_part
       ELSE UNCHANGED << current_result, found_results, remained_part >>
    /\ UNCHANGED << search_query, limit, shares_remained, page, returned, exhausted,
                    limits, calls >>
    /\ UNCHANGED outside_cursor

\* lines 188-196: the loop is over; None, or the sorted results cut at limit
ReturnPage ==
    /\ \/ cpc = "returning"
       \/ cpc = "searching" /\ current_searching_query_index >= Len(search_query)
    /\ IF Len(current_result) = 0
       THEN /\ page' = Returned(None)
            /\ UNCHANGED << current_result, remained_part >>
       ELSE LET sorted == SortByScore(current_result)
                longer == LongerThan(sorted, limit)
            IN  IF longer.kind = "raise"
                THEN /\ page' = longer
                     /\ current_result' = sorted
                     /\ UNCHANGED remained_part
                ELSE IF longer.value
                THEN /\ remained_part' = Some(From(sorted, limit.value))
                     /\ current_result' = UpTo(sorted, limit.value)
                     /\ page' = Returned(Some(current_result'))
                ELSE /\ current_result' = sorted
                     /\ page' = Returned(Some(sorted))
                     /\ UNCHANGED remained_part
    /\ cpc' = "ready"
    /\ UNCHANGED << search_query, current_searching_query_index, limit, timeout,
                    shares_remained, search_res, found_results, returned, exhausted,
                    limits, calls >>
    /\ UNCHANGED outside_cursor

CursorNext ==
    \/ \E l \in LimitChoices, t \in TimeoutChoices : GetNextPage(l, t)
    \/ \E res \in UNION { SearchOutcomes(q) : q \in Range(search_query) },
          time_used \in {0, 60, DefaultTimeout} : SearchQuery(res, time_used)
    \/ ReturnPage

CursorSpec == CursorInit /\ [][CursorNext]_all_vars

\* ------------------------------- _download_general over several column pairs
MaxColumnPairs == 3     \* a join spec holds at most MaxColumnPairs column pairs

\* the pairs of get_column_number_pairs() (line 1328): pair k joins left
\* column k - 1 with right column k - 1
ColumnPair(k) == << << k - 1 >>, << k - 1 >> >>
ColumnPairChoices == { [k \in 1..n |-> ColumnPair(k)] : n \in 1..MaxColumnPairs }

DownloadInit ==
    /\ column_pairs \in ColumnPairChoices
    /\ pair_index = 0
    /\ join_pairs_result = << >>
    /\ candidate_join_column_scores = << >>
    /\ found_pairs = None
    /\ all_results = << >>
    /\ return_result = Pending
    /\ dpc = "pairs"
    /\ AugmentIdle
    /\ SearchIdle
    /\ JoinSpecIdle
    /\ CursorIdle
    /\ QueryIdle
    /\ MaterializerIdle
    /\ TimeColumnsIdle

\* lines 1330-1356: find_pair on the next column pair; a call that raises
\* assigns nothing and adds nothing
FindPair(P, ok) ==
    /\ dpc = "pairs"
    /\ pair_index < Len(column_pairs)
    /\ pair_index' = pair_index + 1
    /\ IF ok
       THEN LET joined == find_pair(P)
            IN  /\ found_pairs' = Some(joined.pairs)
                /\ join_pairs_result' =
                       Append(join_pairs_result,
                              [ on |-> column_pairs[pair_index + 1],
                                joining_pairs |-> joined.joining_pairs ])
                /\ candidate_join_column_scores' =
                       Append(candidate_join_column_scores, 1)
       ELSE UNCHANGED << found_pairs, join_pairs_result, candidate_join_column_scores >>
    /\ UNCHANGED << column_pairs, all_results, return_result, dpc >>
    /\ UNCHANGED outside_download

\* all_results.sort(key=lambda x: x[1], reverse=True): stable
RECURSIVE InsertByJoinScore(_, _)
InsertByJoinScore(sorted, x) ==
    IF sorted = << >> THEN << x >>
    ELSE IF Head(sorted)[2] < x[2]
         THEN << x >> \o sorted
         ELSE << Head(sorted) >> \o InsertByJoinScore(Tail(sorted), x)

RECURSIVE SortByJoinScore(_)
SortByJoinScore(xs) ==
    IF xs = << >> THEN << >>
    ELSE InsertByJoinScore(SortByJoinScore(SubSeq(xs, 1, Len(xs) - 1)), xs[Len(xs)])

\* lines 1358-1370: the results are listed with pairs[i] and the score at the
\* same position, sorted, and the table of the first is returned
ChooseBest ==
    /\ dpc = "pairs"
    /\ pair_index = Len(column_pairs)
    /\ all_results' =
          SortByJoinScore([ i \in 1..Len(join_pairs_result) |->
                              << column_pairs[i], candidate_join_column_scores[i],
                                 join_pairs_result[i] >> ])
    /\ return_result' = IF Len(all_results') = 0
                        THEN Raise("ValueError", "All join attempt failed!")
                        ELSE Returned(all_results'[1][3])
    /\ dpc' = "done"
    /\ UNCHANGED << column_pairs, pair_index, join_pairs_result,
                    candidate_join_column_scores, found_pairs >>
    /\ UNCHANGED outside_download

DownloadNext ==
    \/ \E P \in PairSets(MaxPairedLeft), ok \in BOOLEAN : FindPair(P, ok)
    \/ ChooseBest

DownloadSpec == DownloadInit /\ [][DownloadNext]_all_vars

\* --------------------------- Datamart.generate_datamart_query_from_data
\* the cells of a column: a date of the model, or a text that is no date
DateCell(d) == [kind |-> "date", day |-> d]
WordCell(w) == [kind |-> "text", word |-> w]

\* every word of the model in Python's (code point) sort order
SortedWords == << "01", "06", "2020", "a", "ann", "b", "n" >>

\* str(each).lower().translate(translator).split() (line 1045): the cell in
\* lower case, cut at punctuation and blanks
Words(cell) ==
    IF cell.kind = "date"
    THEN CASE cell.day = 0 -> {"2020", "01"}
           [] OTHER -> {"2020", "06", "01"}
    ELSE CASE cell.word = "Ann" -> {"ann"}
           [] cell.word = "ann b." -> {"ann", "b"}
           [] OTHER -> {"n", "a"}

\* the columns a data constraint may name: the semantic types of the column
\* and its cells, one row at least
SemanticTypeChoices == { {"time"}, {"time", "text"}, {"text"}, {} }
CellChoices ==
    { << DateCell(0), DateCell(152) >>, << DateCell(152), WordCell("n/a") >>,
      << WordCell("Ann"), WordCell("ann b.") >> }
ColumnChoices(name) ==
    { [name |-> name, semantic_types |-> st, cells |-> cells] :
        st \in SemanticTypeChoices, cells \in CellChoices }
ConstraintColumnChoices ==
    { << c >> : c \in ColumnChoices("t") }
        \cup { << c, d >> : c \in ColumnChoices("t"), d \in ColumnChoices("k") }

QueryInit ==
    /\ constraint_columns \in ConstraintColumnChoices
    /\ columns_done = 0
    /\ keywords = << >>
    /\ all_query_variables = << >>
    /\ generated_query = Pending
    /\ qpc = "columns"
    /\ AugmentIdle
    /\ SearchIdle
    /\ JoinSpecIdle
    /\ CursorIdle
    /\ DownloadIdle
    /\ MaterializerIdle
    /\ TimeColumnsIdle

\* a to_datetime that turns what it cannot parse into NaT and never raises
ToDatetimeCoerce(cells) ==
    Returned([i \in DOMAIN cells |-> IF cells[i].kind = "date" THEN cells[i].day ELSE 0])

\* pd.to_datetime(column_data) (line 1016): raises when a cell is no date
ToDatetime(cells) ==
    IF \E i \in DOMAIN cells : cells[i].kind # "date"
    THEN Raise("ValueError", "Unknown string format")
    ELSE Returned([i \in DOMAIN cells |-> cells[i].day])

\* Utils.get_time_granularity: the coarsest unit that tells the dates apart
TimeGranularity(days) ==
    IF \A i \in DOMAIN days : days[i] = 0 THEN "year"
    ELSE IF \A i \in DOMAIN days : days[i] \in {0, 152} THEN "month"
    ELSE "day"

\* TIME_COLUMN_MARK + "____" + name (line 1022), and the plain column name
TimeKeyword(name) == [mark |-> TRUE, column |-> name]
TextKeyword(name) == [mark |-> FALSE, column |-> name]

VariableConstraint(key, values) == [key |-> key, values |-> values]

\* lines 1014-1025: what the try block adds for a column of time type, or
\* the exception it ends with; the keyword is appended after the dates and
\* the granularity are out
TimeEntries(col) ==
    LET parsed == ToDatetime(col.cells)
    IN  IF parsed.kind = "raise" THEN parsed
        ELSE LET days == parsed.value
                 start_date == CHOOSE d \in Range(days) : \A e \in Range(days) : d <= e
                 end_date == CHOOSE d \in Range(days) : \A e \in Range(days) : d >= e
             IN  Returned([ keyword |-> TimeKeyword(col.name),
                            variable |-> VariableConstraint(
                                TimeKeyword(col.name),
                                << start_date, end_date, TimeGranularity(days) >>) ])

\* lines 1039-1050: the words of the column's cells, sorted, each once
AllValueStr(cells) ==
    Restrict(SortedWords, UNION { Words(cells[i]) : i \in DOMAIN cells })

\* lines 1007-1052: the loop body for the next column
HandleColumn ==
    /\ qpc = "columns"
    /\ columns_done < Len(constraint_columns)
    /\ LET col == constraint_columns[columns_done + 1]
           is_time == "time" \in col.semantic_types
           entries == TimeEntries(col)
           treat_as_a_text_column == is_time /\ entries.kind = "raise"
           time_keywords == IF is_time /\ entries.kind = "return"
                            THEN << entries.value.keyword >> ELSE << >>
           time_variables == IF is_time /\ entries.kind = "return"
                             THEN << entries.value.variable >> ELSE << >>
           as_text == "text" \in col.semantic_types \/ treat_as_a_text_column
           text_keywords == IF as_text THEN << TextKeyword(col.name) >> ELSE << >>
           text_variables == IF as_text
                             THEN << VariableConstraint(TextKeyword(col.name),
                                                        AllValueStr(col.cells)) >>
                             ELSE << >>
       IN  /\ keywords' = keywords \o time_keywords \o text_keywords
           /\ all_query_variables' = all_query_variables \o time_variables \o text_variables
    /\ columns_done' = columns_done + 1
    /\ UNCHANGED << constraint_columns, generated_query, qpc >>
    /\ UNCHANGED outside_query

\* lines 1054-1056
ReturnQuery ==
    /\ qpc = "columns"
    /\ columns_done = Len(constraint_columns)
    /\ generated_query' = Returned([keywords |-> keywords, variables |-> all_query_variables])
    /\ qpc' = "done"
    /\ UNCHANGED << constraint_columns, columns_done, keywords, all_query_variables >>
    /\ UNCHANGED outside_query

QueryNext == HandleColumn \/ ReturnQuery

QuerySpec == QueryInit /\ [][QueryNext]_all_vars

\* ------------------------------------------------------- MaterializerCache
HashKeys == {"k1", "k2"}
Dataframes == {"df1", "df2"}

\* "materializer_" + hash_key and "timestamp_" + hash_key
MaterializerEntry(hash_key) == << "materializer_", hash_key >>
TimestampEntry(hash_key) == << "timestamp_", hash_key >>
EntryNames == { MaterializerEntry(k) : k \in HashKeys } \cup { TimestampEntry(k) : k \in HashKeys }

\* os.path.join(config.cache_file_storage_base_loc, hash_key + ".pkl")
PathOf(hash_key) == [path |-> hash_key]

\* a cache file: missing, cut short, or the pickle of a value
NoFile == [state |-> "missing"]
BrokenFile == [state |-> "broken"]
Pickled(value) == [state |-> "pickle", value |-> value]

\* the state after MaterializerCache.__init__ (lines 27-33), on a server and
\* a directory that may hold entries of earlier runs
MaterializerInit ==
    /\ mc \in BOOLEAN
    /\ memcache \in [EntryNames -> {None}]
    /\ cache_files \in [HashKeys -> {NoFile, BrokenFile}]
    /\ add_response = Pending
    /\ cache_results = Pending
    /\ just_stored = None
    /\ mpc = "new"
    /\ AugmentIdle
    /\ SearchIdle
    /\ JoinSpecIdle
    /\ CursorIdle
    /\ DownloadIdle
    /\ QueryIdle
    /\ TimeColumnsIdle

\* "if response_code1 or response_code2"
EitherStored(response_code1, response_code2) == response_code1 \/ response_code2

\* "if response_code1 and response_code2" (line 83)
BothStored(response_code1, response_code2) == response_code1 /\ response_code2

\* lines 65-91; written: the file could be opened and the value pickled;
\* response_code1, response_code2: what the two mc.set calls answer
AddToMemcache(hash_key, value, opened, dumped, response_code1, response_code2) ==
    /\ mpc # "idle"
    /\ mpc' = "add"
    /\ IF ~opened
       THEN \* open() raises: nothing is written or sent
            /\ add_response' = [ key |-> hash_key, value |-> value, stored1 |-> FALSE,
                                 stored2 |-> FALSE, outcome |-> Returned(FALSE) ]
            /\ UNCHANGED << memcache, cache_files >>
       ELSE IF ~dumped
       THEN \* pickle.dump raises on the file open() has emptied
            /\ cache_files' = [cache_files EXCEPT ![hash_key] = BrokenFile]
            /\ add_response' = [ key |-> hash_key, value |-> value, stored1 |-> FALSE,
                                 stored2 |-> FALSE, outcome |-> Returned(FALSE) ]
            /\ UNCHANGED memcache
       ELSE IF ~mc
       THEN \* self.mc.set on None raises AttributeError
            /\ cache_files' = [cache_files EXCEPT ![hash_key] = Pickled(value)]
            /\ add_response' = [ key |-> hash_key, value |-> value, stored1 |-> FALSE,
                                 stored2 |-> FALSE, outcome |-> Returned(FALSE) ]
            /\ UNCHANGED memcache
       ELSE /\ cache_files' = [cache_files EXCEPT ![hash_key] = Pickled(value)]
            /\ memcache' =
                  [ name \in EntryNames |->
                      IF name = MaterializerEntry(hash_key) /\ response_code1
                      THEN Some(PathOf(hash_key))
                      ELSE IF name = TimestampEntry(hash_key) /\ response_code2
                      THEN Some("now")
                      ELSE memcache[name] ]
            /\ add_response' =
                  [ key |-> hash_key, value |-> value, stored1 |-> response_code1,
                    stored2 |-> response_code2,
                    outcome |-> Returned(BothStored(response_code1, response_code2)) ]
    /\ just_stored' = IF add_response'.outcome = Returned(TRUE)
                      THEN Some([key |-> hash_key, value |-> value])
                      ELSE None
    /\ UNCHANGED << mc, cache_results >>
    /\ UNCHANGED outside_materializer

\* lines 40-63
GetCacheResults(hash_key) ==
    /\ mpc # "idle"
    /\ mpc' = "get"
    /\ cache_results' =
          [ key |-> hash_key,
            outcome |->
              IF ~mc THEN Returned(None)
              ELSE LET results == memcache[MaterializerEntry(hash_key)]
                   IN  IF results.none THEN Returned(None)
                       ELSE LET file == cache_files[results.value.path]
                            IN  IF file.state = "pickle"
                                THEN Returned(Some(file.value))
                                ELSE Returned(None) ]
    /\ UNCHANGED << mc, memcache, cache_files, add_response, just_stored >>
    /\ UNCHANGED outside_materializer

\* the memcache server drops an entry
Evict(name) ==
    /\ mpc # "idle"
    /\ ~memcache[name].none
    /\ memcache' = [memcache EXCEPT ![name] = None]
    /\ just_stored' = None
    /\ mpc' = "evict"
    /\ UNCHANGED << mc, cache_files, add_response, cache_results >>
    /\ UNCHANGED outside_materializer

MaterializerNext ==
    \/ \E hash_key \in HashKeys, value \in Dataframes,
          opened \in BOOLEAN, dumped \in BOOLEAN,
          response_code1 \in BOOLEAN, response_code2 \in BOOLEAN :
            AddToMemcache(hash_key, value, opened, dumped, response_code1, response_code2)
    \/ \E hash_key \in HashKeys : GetCacheResults(hash_key)
    \/ \E name \in EntryNames : Evict(name)

MaterializerSpec == MaterializerInit /\ [][MaterializerNext]_all_vars

\* ------------------------------------------------ _search_with_time_columns
\* the supplied dataframe has time columns 0 and 2 and the key column at 1;
\* every dataset found has its time column at 0 and the key column at 1
SuppliedTimeFrame == << "t", "a", "t" >>
FoundFrame == << "t", VariableName >>

Granularities == {3, 4}
TimeRanges == { << 0, 152 >>, << 181, 365 >> }

\* an entry of time_columns_left (lines 700-705)
LeftTimeInfo(column_number, granularity, range) ==
    [ granularity |-> granularity, start_time |-> range[1], end_time |-> range[2],
      column_number |-> column_number ]

\* an entry of time_columns_right (lines 721-727)
RightTimeInfo(dataset_id, granularity, range) ==
    [ granularity |-> granularity, start_time |-> range[1], end_time |-> range[2],
      column_number |-> 0, dataset_id |-> dataset_id ]

TimeColumnsLeftChoices ==
    { << LeftTimeInfo(0, g, r) >> : g \in Granularities, r \in TimeRanges }
        \cup { << LeftTimeInfo(0, g, r), LeftTimeInfo(2, 4, << 0, 152 >>) >> :
                 g \in Granularities, r \in TimeRanges }

DatasetIdChoices == { << "d1" >>, << "d1", "d2" >> }

\* str(x) of a time or a granularity
Str(x) == << "str", x >>

\* what the search_result and query_json dicts of a result hold before the
\* call: the keyword of the query, and no time coverage
InitialDicts == [ keywords |-> << TextKeyword(QueryVariables[1]) >>, time |-> None ]

TimeColumnsInit ==
    /\ time_columns_left \in TimeColumnsLeftChoices
    /\ \E ids \in DatasetIdChoices :
          /\ time_columns_right \in
                { [i \in DOMAIN ids |-> RightTimeInfo(ids[i], info[i][1], info[i][2])] :
                    info \in [DOMAIN ids -> Granularities \X TimeRanges] }
          /\ search_results = [i \in DOMAIN ids |-> [id |-> ids[i], join_pairs |-> None]]
          /\ shared_dicts = [i \in DOMAIN ids |-> InitialDicts]
    /\ can_consider_datasets = << >>
    /\ results_done = 0
    /\ combines_done = 0
    /\ filtered_search_result = << >>
    /\ tpc = "consider"
    /\ AugmentIdle
    /\ SearchIdle
    /\ JoinSpecIdle
    /\ CursorIdle
    /\ DownloadIdle
    /\ QueryIdle
    /\ MaterializerIdle

\* lines 731-745: the combinations kept for a dataset, left columns outermost
RECURSIVE CombinesOf(_, _, _)
CombinesOf(dataset_id, lefts, rights) ==
    IF lefts = << >> THEN << >>
    ELSE LET left_time_info == Head(lefts)
             kept == SelectSeq(rights, LAMBDA right_time_info :
                        /\ right_time_info.dataset_id = dataset_id
                        /\ left_time_info.granularity >= right_time_info.granularity
                        /\ overlap(<< left_time_info.start_time, left_time_info.end_time >>,
                                   << right_time_info.start_time, right_time_info.end_time >>))
         IN  [ i \in DOMAIN kept |->
                 [ left_column_number |-> left_time_info.column_number,
                   right_dataset_id |-> kept[i].dataset_id,
                   right_join_column_number |-> kept[i].column_number,
                   right_join_start_time |-> kept[i].start_time,
                   right_join_end_time |-> kept[i].end_time,
                   right_join_time_granularity |-> kept[i].granularity ] ]
             \o CombinesOf(dataset_id, Tail(lefts), rights)

\* lines 729-745
ConsiderDatasets ==
    /\ tpc = "consider"
    /\ can_consider_datasets' =
          [ i \in DOMAIN search_results |->
              CombinesOf(search_results[i].id, time_columns_left, time_columns_right) ]
    /\ tpc' = "combine"
    /\ UNCHANGED << time_columns_left, time_columns_right, search_results, shared_dicts,
                    results_done, combines_done, filtered_search_result >>
    /\ UNCHANGED outside_timecolumns

\* lines 766-782: the join spec of a combination
UpdatedJoinPairs(each_combine) ==
    [ none |-> FALSE,
      groups |-> << [ left |-> << each_combine.left_column_number,
                                  IndexOf(SuppliedTimeFrame, QueryVariables[1]) - 1 >>,
                      right |-> << each_combine.right_join_column_number,
                                   IndexOf(FoundFrame, VariableName) - 1 >> ] >> ]

\* lines 785-790, on the dicts the copy refers to
UpdatedDicts(dicts, each_combine) ==
    [ keywords |-> Append(dicts.keywords, TimeKeyword(VariableName)),
      time |-> Some(<< Str(each_combine.right_join_start_time),
                       Str(each_combine.right_join_end_time),
                       Str(each_combine.right_join_time_granularity) >>) ]

\* lines 751-791: the next combination of the result at hand; copy.copy gives
\* the copy attributes of its own and the dicts of the result it is copied from
Combine ==
    /\ tpc = "combine"
    /\ results_done < Len(search_results)
    /\ combines_done < Len(can_consider_datasets[results_done + 1])
    /\ LET each_combine == can_consider_datasets[results_done + 1][combines_done + 1]
           updated == UpdatedDicts(shared_dicts[results_done + 1], each_combine)
       IN  /\ shared_dicts' = [shared_dicts EXCEPT ![results_done + 1] = updated]
           /\ filtered_search_result' =
                  Append(filtered_search_result,
                         [ id |-> search_results[results_done + 1].id,
                           join_pairs |-> UpdatedJoinPairs(each_combine),
                           dicts_of |-> results_done + 1,
                           emitted_with |-> updated ])
    /\ combines_done' = combines_done + 1
    /\ UNCHANGED << time_columns_left, time_columns_right, search_results,
                    can_consider_datasets, results_done, tpc >>
    /\ UNCHANGED outside_timecolumns

\* lines 748-750: the combinations of a result are done, or it has none
NextResult ==
    /\ tpc = "combine"
    /\ results_done < Len(search_results)
    /\ combines_done = Len(can_consider_datasets[results_done + 1])
    /\ results_done' = results_done + 1
    /\ combines_done' = 0
    /\ UNCHANGED << time_columns_left, time_columns_right, search_results, shared_dicts,
                    can_consider_datasets, filtered_search_result, tpc >>
    /\ UNCHANGED outside_timecolumns

\* line 793
ReturnFiltered ==
    /\ tpc = "combine"
    /\ results_done = Len(search_results)
    /\ tpc' = "done"
    /\ UNCHANGED << time_columns_left, time_columns_right, search_results, shared_dicts,
                    can_consider_datasets, results_done, combines_done,
                    filtered_search_result >>
    /\ UNCHANGED outside_timecolumns

TimeColumnsNext == ConsiderDatasets \/ Combine \/ NextResult \/ ReturnFiltered

TimeColumnsSpec == TimeColumnsInit /\ [][TimeColumnsNext]_all_vars

\* ------------------------------------------------------------ properties
HasTable == inner.kind = "table"

\* the columns of the merged table that are not columns of the supplied table
AddedColumns == Range(inner.table.cols) \ Range(supplied_cols)

PairedLeftRows == { pairs.list[i][1] : i \in DOMAIN pairs.list }
RightRowsOf(r1) == { pairs.list[i][2] : i \in { j \in DOMAIN pairs.list : pairs.list[j][1] = r1 } }
LeftRowsOf(r2) == { pairs.list[i][1] : i \in { j \in DOMAIN pairs.list : pairs.list[j][2] = r2 } }
SeveralPairsForOneLeftRow == \E r1 \in PairedLeftRows : Cardinality(RightRowsOf(r1)) > 1

\* C1: the merged table has one row per left row, in the left table's row
\* order: row i of the output carries the left cells of left row i.
RowOrderAndCountPreserved ==
    HasTable =>
        /\ Len(inner.table.rows) = supplied_n
        /\ \A i \in DOMAIN inner.table.rows :
              \A c \in Range(inner.table.cols) \cap Range(supplied_cols) :
                 /\ inner.table.rows[i][c][1] = "L"
                 /\ inner.table.rows[i][c][2] = i - 1

\* a merge in which a left row other than row 0 comes first in the pair list
\* and has several pairs, so paired and unpaired rows are out of order before
\* the final sort
RowOrderWitness ==
    /\ HasTable
    /\ SeveralPairsForOneLeftRow
    /\ pairs.list[1][1] > 0
    /\ Range(inner.table.cols) \cap Range(supplied_cols) # {}

\* the fan-out of the pair list against left_row_count / 20
LeftFanOutExceeds ==
    \E r1 \in PairedLeftRows : Cardinality(RightRowsOf(r1)) * DuplicateRatio > supplied_n
RightFanOutExceeds ==
    \E r2 \in 0..(RightRows - 1) : Cardinality(LeftRowsOf(r2)) * DuplicateRatio > supplied_n

GuardRejected ==
    /\ inner.kind = "raise"
    /\ inner.why \in { "Too much available join columns",
                       "Should not augment for n-m relationship." }

\* the checks have run on the pairs of a general search
GuardEvaluated ==
    /\ search_type = "general"
    /\ ~pairs.none
    /\ pc = "merge" \/ (pc = "result" /\ GuardRejected)

\* C2: a general-search join is rejected if and only if the maximum left
\* fan-out and the maximum right fan-out both exceed left_row_count / 20.
GuardRejectsIffBothExceed ==
    GuardEvaluated => (GuardRejected <=> (LeftFanOutExceeds /\ RightFanOutExceeds))

\* C3: a join is rejected only when both sides exceed the threshold, so a
\* join in which just one side exceeds it passes the check.
OneSidedFanOutAccepted ==
    (GuardEvaluated /\ GuardRejected) => (LeftFanOutExceeds /\ RightFanOutExceeds)

ColumnLayout ==
    HasTable =>
        /\ Len(inner.table.cols) >= Len(supplied_cols)
        /\ SubSeq(inner.table.cols, 1, Len(supplied_cols)) = supplied_cols
        /\ \A i \in (Len(supplied_cols) + 1)..Len(inner.table.cols) :
              inner.table.cols[i] \in Range(right_cols) \ Range(supplied_cols)

\* C6: _augment returns no table to which zero right columns were added
\* (it raises ValueError instead).
VacuousMergeIsError ==
    HasTable => AddedColumns # {}

\* C7: augment() returns only augmented datasets; when _augment raised or
\* timed out, or the cache held a failure message, it raises ValueError.
AugmentRaisesOnFailure ==
    pc = "done" =>
        /\ ret.kind = "return" => ret.value.type = "dataset"
        /\ inner.kind \in {"raise", "timeout"} =>
              (ret.kind = "raise" /\ ret.exc = "ValueError")

\* the smallest right row paired with left row r1
MinRight(r1) == CHOOSE r2 \in RightRowsOf(r1) : \A q \in RightRowsOf(r1) : r2 <= q

\* C8: the output row of a left row with several pairs takes its added
\* columns from the paired right row with the smallest index.
FirstRightPairRule ==
    HasTable =>
        \A r1 \in PairedLeftRows : \A c \in AddedColumns :
           inner.table.rows[r1 + 1][c] = RightCell(MinRight(r1), c)

FirstRightPairWitness ==
    /\ HasTable
    /\ SeveralPairsForOneLeftRow
    /\ AddedColumns # {}

\* C9: no right column the rows were joined on is among the added columns.
JoinKeyExcluded ==
    HasTable => joined_on \cap AddedColumns = {}

\* the columns the caller's allow-list names; an index out of range names none
AllowListNames ==
    { right_cols[i + 1] : i \in { j \in Range(caller_columns.cols) : j < Len(right_cols) } }

CallerGaveFilter == ~caller_columns.none /\ caller_columns.cols # <<>>

GuardWouldReject ==
    \/ TooManyJoinColumns(download_result.joining_pairs, supplied_n)
    \/ NToMRelationship(pairs.list, supplied_n)

\* C11 as stated: for every search type, a merged pair set is one the
\* duplicate checks do not reject.
GuardBeforeMergeEveryMode ==
    HasTable => ~GuardWouldReject

\* C11 amended: for a general search, a merged pair set is one the duplicate
\* checks do not reject (wikidata and vector searches skip the checks).
GuardBeforeMergeGeneral ==
    (HasTable /\ search_type = "general") => ~GuardWouldReject

\* a general search's pairs passed the checks and were merged
GuardBeforeMergeWitness ==
    /\ HasTable
    /\ search_type = "general"
    /\ Len(pairs.list) > 1

\* ------------------------------------------- properties of the search
\* the query result the loop handled last
LastResult == query_results[result_index]

LastScored == spc \in {"score", "done"} /\ result_index > 0

Min(a, b) == IF a < b THEN a ELSE b
Max(a, b) == IF a > b THEN a ELSE b

RangesDisjoint(q, d) == d[2] < q[1] \/ q[2] < d[1]
DatasetContainsQuery(q, d) == d[1] <= q[1] /\ q[2] <= d[2]

\* the part of the query range q the dataset range d covers, as a fraction
\* of the query range's duration
CoveredFraction(q, d) == Divide(Min(q[2], d[2]) - Max(q[1], d[1]), q[2] - q[1])

ExpectedTimeScore(q, d) ==
    IF RangesDisjoint(q, d) THEN Float(0)
    ELSE IF DatasetContainsQuery(q, d) THEN Float(1)
    ELSE CoveredFraction(q, d)

RangeOf(hit) == << hit.start_time, hit.end_time >>

\* C12: for valid ranges the time score is always assigned; it is 0.0 for
\* disjoint ranges, 1.0 when the dataset range contains the query range,
\* otherwise the covered fraction of the query range, and lies in [0, 1].
TimeScoreDefined ==
    /\ spc # "raised"
    /\ LastScored =>
          /\ time_score.assigned
          /\ time_score.value = ExpectedTimeScore(tv, RangeOf(LastResult))
          /\ FloatLeq(Float(0), time_score.value)
          /\ FloatLeq(time_score.value, Float(1))

\* a partial overlap was scored: the score is strictly between 0 and 1
TimeScoreWitness ==
    /\ LastScored
    /\ result_index = 2
    /\ FloatLess(Float(0), time_score.value)
    /\ FloatLess(time_score.value, Float(1))
    /\ LastResult.start_time < tv[1]

ScenarioC ==
    /\ LastScored
    /\ tv = << 0, 365 >>
    /\ RangeOf(LastResult) = << 152, 181 >>

\* C13 as stated: query [2020-01-01, 2020-12-31], dataset
\* [2020-06-01, 2020-06-30]: the time score is 1.0.
ScenarioCScoreIsOne ==
    ScenarioC => time_score = Assigned(Float(1))

\* C13 amended: query [2020-01-01, 2020-12-31], dataset
\* [2020-06-01, 2020-06-30]: the time score is the covered fraction of the
\* query range, 29 days of 365.
ScenarioCScoreIsFraction ==
    ScenarioC => time_score = Assigned(Divide(29, 365))

ScenarioCWitness ==
    /\ ScenarioC
    /\ time_score.assigned
    /\ spc = "done"

\* ranked is in descending order of score
SortedDescending(xs) ==
    \A i \in 1..(Len(xs) - 1) : FloatLeq(score(xs[i + 1]), score(xs[i]))

\* C14: a hit that came with a keyword relevance carries, after scoring,
\* that relevance plus its time score, whatever the time score is, and the
\* returned list is in descending order of score.
ScoreIsRelevancePlusTime ==
    /\ spc \in {"score", "done"} =>
          \A j \in 1..result_index :
             bindings[query_results[j].id].score.has =>
                score(query_results[j]) =
                   FloatAdd(bindings[query_results[j].id].score.value,
                            ExpectedTimeScore(tv, RangeOf(query_results[j])))
    /\ spc = "done" => SortedDescending(ranked)

\* C15: the time filter keeps a dataset exactly when its range [a_start,
\* a_end] and the query range [b_start, b_end] satisfy a_start <= b_end and
\* b_start <= a_end, and the test gives the same answer with its arguments
\* exchanged, ranges that touch at one endpoint included.
OverlapTestSymmetric ==
    (spc \in {"score", "done", "raised"} /\ ~augment_with_time) =>
        \A i \in DOMAIN bindings :
           LET a == RangeOf(bindings[i])
               kept == \E k \in DOMAIN query_results : query_results[k].id = i
           IN  /\ kept <=> (a[1] <= tv[2] /\ tv[1] <= a[2])
               /\ kept <=> SparqlTimeFilter(tv[1], tv[2], a[1], a[2])
               /\ overlap(a, tv) <=> kept
               /\ overlap(a, tv) <=> overlap(tv, a)

\* a dataset whose range starts on the query's last day was kept
OverlapWitness ==
    /\ spc = "score"
    /\ ~augment_with_time
    /\ \E k \in DOMAIN query_results : query_results[k].start_time = tv[2]
    /\ Len(query_results) < Len(bindings)

\* ------------------------------ properties of join specs and join hints
\* the join spec the search result holds
HeldJoinSpec == this_result.join_pairs.value[1]

IsPrefix(a, b) == Len(a) <= Len(b) /\ a = SubSeq(b, 1, Len(a))

\* C16: a constructed TabularJoinSpec has group lists of equal length, each
\* the leading groups of the list given, of the shorter list's length, and
\* get_column_number_pairs gives one pair of column-number groups per
\* retained position.
JoinSpecLengthInvariant ==
    jpc = "set" =>
        LET given == given_columns.value
            shorter == ShorterLen(given.left_columns, given.right_columns)
            numbers == get_column_number_pairs(HeldJoinSpec)
        IN  /\ Len(HeldJoinSpec.left_columns) = Len(HeldJoinSpec.right_columns)
            /\ Len(HeldJoinSpec.left_columns) = shorter
            /\ IsPrefix(HeldJoinSpec.left_columns, given.left_columns)
            /\ IsPrefix(HeldJoinSpec.right_columns, given.right_columns)
            /\ Len(numbers) = shorter
            /\ \A i \in 1..shorter :
                  numbers[i] = << ColumnIndexes(given.left_columns[i]),
                                  ColumnIndexes(given.right_columns[i]) >>

\* a spec was constructed from lists of different lengths and kept a group
JoinSpecLengthWitness ==
    /\ jpc = "set"
    /\ Len(given_columns.value.left_columns) > Len(given_columns.value.right_columns)
    /\ Len(HeldJoinSpec.left_columns) = 1

\* the text at hand carries two lists of column groups of different lengths
MismatchedText ==
    /\ serialized.text.members.left_columns.json = "array"
    /\ serialized.text.members.right_columns.json = "array"
    /\ Len(serialized.text.members.left_columns.items)
          # Len(serialized.text.members.right_columns.items)

\* C17: deserializing a text whose left and right lists differ in length
\* does not raise; it yields a join spec cut to the shorter length.
MismatchNeverRaises ==
    (jpc \in {"restored", "deserialize_raised"} /\ MismatchedText) =>
        /\ jpc = "restored"
        /\ Len(restored.value.join_pairs.value[1].left_columns) =
              Min(Len(serialized.text.members.left_columns.items),
                  Len(serialized.text.members.right_columns.items))

\* C18: serialize() of a general search result succeeds, deserialize() of
\* its text succeeds and gives a result with the same search_result,
\* query_json and search_type and the same column-number pairs; and the
\* column-number pairs of a spec, split into left and right lists and given
\* to from_column_number_pairs, come back as the same pairs.
SerializeRoundTrip ==
    /\ jpc # "serialize_raised"
    /\ (jpc \in {"restored", "deserialize_raised"} /\ serialized.origin = "serialize") =>
          /\ jpc = "restored"
          /\ Identity(restored.value) = Identity(this_result)
          /\ get_column_number_pairs(restored.value.join_pairs.value[1]) =
                get_column_number_pairs(HeldJoinSpec)
    /\ jpc = "set" =>
          LET numbers == get_column_number_pairs(HeldJoinSpec)
              again == from_column_number_pairs(Some(Lefts(numbers)), Some(Rights(numbers)))
          IN  /\ again.kind = "return"
              /\ get_column_number_pairs(again.value) = numbers

\* the live tables are the ones the deferred resolution reads about: the
\* supplied table, and a right table with the columns of the snapshot
SnapshotColumns(entries) ==
    LET cols == SelectSeq(entries, LAMBDA e : e.dict)
    IN  [i \in DOMAIN cols |-> cols[i].name]

MatchingInputs ==
    /\ this_result.supplied_dataframe = Some(hints.left_df)
    /\ SnapshotColumns(this_result.extra_information) = hints.right_df

PairsOfHints(specs) == [i \in DOMAIN specs |-> get_column_number_pairs(specs[i])]

\* C19: with matching inputs, get_join_hints without tables returns join
\* specs with the same pairs of column-number groups as get_join_hints with
\* the two tables, for any number of declared variables.
DeferredAgreesWithLive ==
    (jpc = "hinted" /\ MatchingInputs /\ hints.live.kind = "return") =>
        PairsOfHints(hints.deferred.value) = PairsOfHints(hints.live.value)

DeclaredNameAbsent ==
    \/ \E i \in DOMAIN this_result.variables :
          this_result.variables[i] \notin Range(hints.left_df)
    \/ VariableName \notin Range(hints.right_df)

\* C20 as stated: with both tables, get_join_hints raises exactly when a
\* declared variable is not a column of the left table or variableName is
\* not a column of the right table.
LiveHintsRaiseOnMissing ==
    jpc = "hinted" => (hints.live.kind = "raise" <=> DeclaredNameAbsent)

\* C20 amended: with both tables, get_join_hints raises exactly when a
\* declared variable is not a column of the left table, or at least one
\* variable is declared and variableName is not a column of the right
\* table; otherwise it returns one join spec.
LiveHintsRaiseOnMissingDeclared ==
    jpc = "hinted" =>
        LET absent ==
              \/ \E i \in DOMAIN this_result.variables :
                    this_result.variables[i] \notin Range(hints.left_df)
              \/ this_result.variables # << >> /\ VariableName \notin Range(hints.right_df)
        IN  /\ hints.live.kind = "raise" <=> absent
            /\ hints.live.kind = "return" => Len(hints.live.value) = 1

\* the left variable is present and the right key column is not: raised
LiveHintsWitness ==
    /\ jpc = "hinted"
    /\ this_result.variables = <<"a">>
    /\ VariableName \notin Range(hints.right_df)
    /\ hints.live.kind = "raise"

\* --------------------------------------------- properties of get_next_page
\* a call of get_next_page has been made and is over
CallOver == cpc = "ready" /\ calls > 0

\* every call so far was made with the same positive limit
FixedPositiveLimit == \E n \in 1..MaxLimit : limits = { Some(n) }

\* the list a call returned, << >> when it returned None or raised
PageList(p) == IF p.kind = "return" /\ ~p.value.none THEN p.value.value ELSE << >>

DescendingByScore(xs) ==
    \A i \in 1..(Len(xs) - 1) : ~FloatLess(score(xs[i]), score(xs[i + 1]))

\* C21: under calls of get_next_page that all carry one positive limit, a call
\* that begins when every query has been searched and every result found has
\* been returned in a page returns None, and no call returns a result that an
\* earlier page held.
CursorExhaustion ==
    (CallOver /\ FixedPositiveLimit) =>
        /\ exhausted => page = Returned(None)
        /\ PageResults(page) \cap returned = {}

\* C22: a call of get_next_page with limit None ends without an error and its
\* page holds every result found that no earlier page held.
NoLimitReturnsEverything ==
    (CallOver /\ limit = None) =>
        /\ page.kind = "return"
        /\ found_results \subseteq (returned \cup PageResults(page))

\* C23: a call of get_next_page with an integer limit returns None or a list
\* that is not empty, holds at most limit results and is in descending order
\* of score(); every result found that no page held is in remained_part.
PageBoundedAndOrdered ==
    (CallOver /\ ~limit.none /\ page.kind = "return") =>
        /\ page # Returned(Some(<< >>))
        /\ Len(PageList(page)) <= limit.value
        /\ DescendingByScore(PageList(page))
        /\ found_results \subseteq
              (returned \cup PageResults(page) \cup Range(RemainedOrNew))

\* C28: current_searching_query_index never decreases and never exceeds
\* len(search_query); a turn of the loop passes the query exactly when its
\* search returned a list or returned None with seconds left, and otherwise
\* leaves the index and ends the loop; the call that ends then hands every
\* result it collected to its page or to remained_part, the page not None
\* when there is one.
QueryIndexProtocol ==
    /\ [](current_searching_query_index <= Len(search_query))
    /\ [][ /\ current_searching_query_index' >= current_searching_query_index
           /\ (cpc = "searching" /\ cpc' # "ready") =>
                 /\ (current_searching_query_index' = current_searching_query_index + 1)
                       <=> (~search_res'.none \/ timeout' > 0)
                 /\ (current_searching_query_index' = current_searching_query_index)
                       <=> (search_res'.none /\ timeout' <= 0)
                 /\ (cpc' = "returning")
                       <=> (search_res'.none /\ timeout' <= 0)
           /\ (cpc = "returning" /\ ~limit.none) =>
                 /\ cpc' = "ready"
                 /\ Range(current_result) \subseteq
                       (PageResults(page') \cup Range(RemainedOrNew'))
                 /\ current_result # << >> => PageResults(page') # {}
         ]_all_vars

\* a call ended by a timeout on the second query with the results of the
\* first in its page
QueryIndexWitness ==
    /\ CallOver
    /\ current_searching_query_index = 1
    /\ Len(search_query) = 2
    /\ search_res = None
    /\ timeout <= 0
    /\ PageResults(page) # {}

\* ------------------------------------------ properties of _download_wikidata
\* download() handed _augment the table of _dummy_download_wikidata
DummyReturned == download_result.cols = DummyColumns(supplied_cols, right_cols)

\* C24: _download_wikidata returns the dummy table exactly when the supplied
\* dataframe has no column named target_q_node_column_name; with the column
\* at any position, the first included, the wikidata table is downloaded.
DummyIffColumnAbsent ==
    (search_type = "wikidata" /\ pc = "guard") =>
        (DummyReturned <=> TargetQNodeColumn \notin Range(supplied_cols))

\* C25: whatever a call of augment() does (return, raise, or be given up by
\* the timeout), the augment_columns list the caller passed holds afterwards
\* what it held when it was passed.
CallerInputsUntouched == pc # "new" => augment_columns = caller_columns

\* ------------------------------------------- properties of _download_general
\* the row pairs a joined table was built from, in the order find_pair lists them
PairsOfTable(table) ==
    AscendingPairs(UNION { Range(table.joining_pairs[r2]) :
                             r2 \in DOMAIN table.joining_pairs })

\* C29: when _download_general returns a table, self.pairs is the pair list of
\* the find_pair call that made the table and the column pair listed with the
\* table is the one that call was given, whichever calls failed; when every
\* call failed it raises ValueError.
PairsMatchReturnedJoin ==
    dpc = "done" =>
        IF join_pairs_result = << >>
        THEN return_result.kind = "raise" /\ return_result.exc = "ValueError"
        ELSE /\ return_result.kind = "return"
             /\ found_pairs = Some(PairsOfTable(return_result.value))
             /\ all_results[1][1] = return_result.value.on

\* ------------------------ properties of generate_datamart_query_from_data
ColumnParses(col) == \A i \in DOMAIN col.cells : col.cells[i].kind = "date"
TemporalColumns ==
    { constraint_columns[i] : i \in { j \in DOMAIN constraint_columns :
                                        "time" \in constraint_columns[j].semantic_types } }
VariablesKeyed(query, key) ==
    { i \in DOMAIN query.variables : query.variables[i].key = key }

\* C26: generate_datamart_query_from_data returns a query; for a column of
\* time type with a cell that is no date it holds no time-marked keyword or
\* variable and exactly one text variable keyed by the column's name; for a
\* column of time type whose cells are all dates it holds a time-marked
\* variable with the first date, the last date and the granularity.
TemporalFailureDegradesToText ==
    qpc = "done" =>
        /\ generated_query.kind = "return"
        /\ \A col \in TemporalColumns :
              LET query == generated_query.value
                  timed == VariablesKeyed(query, TimeKeyword(col.name))
                  texts == VariablesKeyed(query, TextKeyword(col.name))
              IN  IF ColumnParses(col)
                  THEN /\ Cardinality(timed) = 1
                       /\ \A i \in timed :
                             /\ Len(query.variables[i].values) = 3
                             /\ query.variables[i].values[1] \in
                                   { col.cells[r].day : r \in DOMAIN col.cells }
                             /\ query.variables[i].values[2] \in
                                   { col.cells[r].day : r \in DOMAIN col.cells }
                             /\ \A r \in DOMAIN col.cells :
                                   /\ query.variables[i].values[1] <= col.cells[r].day
                                   /\ query.variables[i].values[2] >= col.cells[r].day
                       /\ TimeKeyword(col.name) \in Range(query.keywords)
                  ELSE /\ timed = {}
                       /\ TimeKeyword(col.name) \notin Range(query.keywords)
                       /\ Cardinality(texts) = 1
                       /\ \A i \in texts :
                             Range(query.variables[i].values) =
                                 UNION { Words(col.cells[r]) : r \in DOMAIN col.cells }

\* a query for a time column that does not parse next to one that does
TemporalFailureWitness ==
    /\ qpc = "done"
    /\ \E col \in TemporalColumns : ~ColumnParses(col)
    /\ \E col \in TemporalColumns : ColumnParses(col)

CandidatesIndependent ==
    /\ \A i \in DOMAIN filtered_search_result :
          shared_dicts[filtered_search_result[i].dicts_of]
              = filtered_search_result[i].emitted_with
    /\ \A k \in DOMAIN shared_dicts : shared_dicts[k] = InitialDicts

====
